---- MODULE Spec2Model ----
(***************************************************************************)
(* A model of ext/native/thin3d/GLQueueRunner.cpp: the executor that       *)
(* replays an initialization queue (RunInitSteps) and a render queue       *)
(* (RunSteps) against an OpenGL device, and the GLRFramebuffer destructor. *)
(*                                                                         *)
(* The device is modelled by the binding points and object names the       *)
(* executor touches.  Every device call the executor issues is appended to *)
(* `calls`, the log of the operation in progress.  Sampler parameters and   *)
(* pixel contents are not part of the device state.                        *)
(***************************************************************************)
EXTENDS Integers, Sequences, FiniteSets, TLC

VARIABLES
    caps,      \* gl_extensions and build flags, fixed at start-up
    gl,        \* device state
    fbs,       \* GLRFramebuffer objects
    shaders,   \* GLRShader objects
    objs,      \* GLRTexture and GLRBuffer objects
    run,       \* GLQueueRunner members
    loc,       \* locals of the running RunInitSteps / PerformRenderPass
    ctl,       \* position of the executor: which loop, how much is left
    calls,     \* the device calls of the operation in progress
    last,      \* the step or command executed last
    crashed    \* Crash() was reached

vars == <<caps, gl, fbs, shaders, objs, run, loc, ctl, calls, last, crashed>>

----------------------------------------------------------------------------
\* Bounds of the model.

TargetWidth == 8
TargetHeight == 8
MaxY == 1

\* Constants of the program.

GL_TEXTURE0 == 33984
GL_COLOR_BUFFER_BIT == 16384
GL_DEPTH_BUFFER_BIT == 256
GL_STENCIL_BUFFER_BIT == 1024
GL_ARRAY_BUFFER == 34962
GL_ELEMENT_ARRAY_BUFFER == 34963
GL_UNIFORM_BUFFER == 35345
TEXCACHE_NAME_CACHE_SIZE == 16
SEM_MAX == 7
\* (GLuint)-1, the all-ones name no device object has.
NO_NAME == -1
g_defaultFBO == 0

NULL == 0
\* The objects the producer hands to the executor.
FbIds == {1, 2}
ShaderIds == {1, 2}
TextureIds == {1}
BufferIds == {1, 2}
ProgramIds == {1, 2}
\* The entries of a program's queries_, each with an initialize_ entry of
\* type 0 on its destination.
Queries == {0, 1}
\* The texture units the commands name.
Slots == {0, 1}
Semantics == 0..(SEM_MAX - 1)
FramebufValues == {0, 1}

\* Width and height a GLRFramebuffer is constructed with.
FbWidth(f) == 2 * f + 2
FbHeight(f) == 2 * f + 2

----------------------------------------------------------------------------
\* Capabilities.

CapNames ==
    {"USING_GLES2", "IOS", "IsGLES", "GLES3", "ARB_framebuffer_object",
     "EXT_framebuffer_object", "OES_packed_depth_stencil",
     "NV_framebuffer_blit", "ARB_copy_image", "NV_copy_image"}

\* Every setting of the flags in `free`, the other flags off.  A GLES2 build
\* only ever runs on a GLES context.
CapsOver(free) ==
    {c \in [CapNames -> BOOLEAN] :
        /\ \A n \in CapNames \ free : ~c[n]
        /\ c["USING_GLES2"] => c["IsGLES"]}

----------------------------------------------------------------------------
\* The device.

Call(f, t, a, b) == [f |-> f, t |-> t, a |-> a, b |-> b]

\* A step or command of a queue: its tag and its operands.
Cmd(op, a, b, c) == [op |-> op, a |-> a, b |-> b, c |-> c]

Emit(w, c) == [w EXCEPT !.calls = Append(@, c)]

\* delete[] of a step's payload, logged with the device calls.
Release(w, payload) == Emit(w, Call("delete[]", payload, 0, 0))

InitGL ==
    [activeTexture |-> 0,
     tex2D |-> [u \in Slots |-> 0],
     renderbuffer |-> 0,
     drawFB |-> g_defaultFBO,
     readFB |-> g_defaultFBO,
     arrayBuffer |-> 0,
     elementArrayBuffer |-> 0,
     otherBuffer |-> 0,
     attribs |-> {},
     scissor |-> FALSE,
     program |-> 0,
     vao |-> 0,
     liveTex |-> {}, liveRb |-> {}, liveFb |-> {}, liveShader |-> {},
     liveBuffer |-> {}, liveProgram |-> {},
     nextTex |-> 1, nextRb |-> 1, nextFb |-> 1, nextShader |-> 1, nextBuffer |-> 1]

\* glActiveTexture(texture): selects unit texture - GL_TEXTURE0; an enum that
\* names no unit is GL_INVALID_ENUM and leaves the active unit alone.
glActiveTexture(w, texture) ==
    Emit([w EXCEPT !.gl.activeTexture =
                     IF texture - GL_TEXTURE0 \in Slots THEN texture - GL_TEXTURE0 ELSE @],
         Call("glActiveTexture", "", texture, 0))

\* glBindTexture(GL_TEXTURE_2D, name) binds on the active unit.
glBindTexture(w, name) ==
    Emit([w EXCEPT !.gl.tex2D[w.gl.activeTexture] = name],
         Call("glBindTexture", "GL_TEXTURE_2D", name, 0))

glTexImage2D(w, width, height) ==
    Emit(w, Call("glTexImage2D", "GL_TEXTURE_2D", width, height))

glBindRenderbuffer(w, f, name) ==
    Emit([w EXCEPT !.gl.renderbuffer = name], Call(f, "GL_RENDERBUFFER", name, 0))

glRenderbufferStorage(w, f, format) ==
    Emit(w, Call(f, format, w.gl.renderbuffer, 0))

\* glBindFramebuffer(target, name): GL_FRAMEBUFFER sets both the draw and the
\* read binding, GL_DRAW_FRAMEBUFFER and GL_READ_FRAMEBUFFER one of them.
glBindFramebuffer(w, f, target, name) ==
    LET g == w.gl
        g2 == [g EXCEPT
                 !.drawFB = IF target \in {"GL_FRAMEBUFFER", "GL_DRAW_FRAMEBUFFER"}
                            THEN name ELSE @,
                 !.readFB = IF target \in {"GL_FRAMEBUFFER", "GL_READ_FRAMEBUFFER"}
                            THEN name ELSE @]
    IN  Emit([w EXCEPT !.gl = g2], Call(f, target, name, 0))

\* glFramebufferTexture2D / glFramebufferRenderbuffer on the bound framebuffer.
glFramebufferAttach(w, f, attachment, name) ==
    Emit(w, Call(f, attachment, name, w.gl.drawFB))

glDeleteFramebuffers(w, f, name) ==
    LET g == w.gl
        g2 == [g EXCEPT !.liveFb = @ \ {name},
                        !.drawFB = IF @ = name THEN 0 ELSE @,
                        !.readFB = IF @ = name THEN 0 ELSE @]
    IN  Emit([w EXCEPT !.gl = g2], Call(f, "", name, 0))

glDeleteRenderbuffers(w, name) ==
    LET g == w.gl
        g2 == [g EXCEPT !.liveRb = @ \ {name},
                        !.renderbuffer = IF @ = name THEN 0 ELSE @]
    IN  Emit([w EXCEPT !.gl = g2], Call("glDeleteRenderbuffers", "", name, 0))

\* Deleting name 0 is silently ignored by the device.
glDeleteTextures(w, name) ==
    LET g == w.gl
        g2 == [g EXCEPT !.liveTex = @ \ {name},
                        !.tex2D = [u \in Slots |->
                                     IF name # 0 /\ @[u] = name THEN 0 ELSE @[u]]]
    IN  Emit([w EXCEPT !.gl = g2], Call("glDeleteTextures", "", name, 0))

\* glBindBuffer(target, name)
glBindBuffer(w, target, name) ==
    LET g == w.gl
        g2 == IF target = GL_ARRAY_BUFFER THEN [g EXCEPT !.arrayBuffer = name]
              ELSE IF target = GL_ELEMENT_ARRAY_BUFFER
                   THEN [g EXCEPT !.elementArrayBuffer = name]
                   ELSE [g EXCEPT !.otherBuffer = name]
    IN  Emit([w EXCEPT !.gl = g2], Call("glBindBuffer", "", target, name))

\* glEnable / glDisable (GL_SCISSOR_TEST)
glScissorTest(w, on) ==
    Emit([w EXCEPT !.gl.scissor = on],
         Call(IF on THEN "glEnable" ELSE "glDisable", "GL_SCISSOR_TEST", 0, 0))

glEnableVertexAttribArray(w, i) ==
    Emit([w EXCEPT !.gl.attribs = @ \cup {i}], Call("glEnableVertexAttribArray", "", i, 0))

glDisableVertexAttribArray(w, i) ==
    Emit([w EXCEPT !.gl.attribs = @ \ {i}], Call("glDisableVertexAttribArray", "", i, 0))

glBindVertexArray(w, name) ==
    Emit([w EXCEPT !.gl.vao = name], Call("glBindVertexArray", "", name, 0))

\* glGen*(1, &name): a name the device has not handed out before.
GenFramebuffer(w, f) ==
    Emit([w EXCEPT !.gl.liveFb = @ \cup {w.gl.nextFb}, !.gl.nextFb = @ + 1],
         Call(f, "", w.gl.nextFb, 0))

GenTexture(w) ==
    Emit([w EXCEPT !.gl.liveTex = @ \cup {w.gl.nextTex}, !.gl.nextTex = @ + 1],
         Call("glGenTextures", "", w.gl.nextTex, 0))

GenRenderbuffer(w, f) ==
    Emit([w EXCEPT !.gl.liveRb = @ \cup {w.gl.nextRb}, !.gl.nextRb = @ + 1],
         Call(f, "", w.gl.nextRb, 0))

----------------------------------------------------------------------------
\* Objects.

\* A GLRFramebuffer as constructed: no native object yet.  `framebuf` is a
\* member this file reads (PerformBindFramebufferAsRenderTarget) and never
\* writes.
NewFramebuffer(f, framebuf) ==
    [width |-> FbWidth(f), height |-> FbHeight(f),
     handle |-> 0, color_texture |-> 0,
     z_stencil_buffer |-> 0, z_buffer |-> 0, stencil_buffer |-> 0,
     framebuf |-> framebuf, life |-> "new"]

\* A GLRShader as constructed.  `compiled` is the device's GL_COMPILE_STATUS
\* of the shader, "none" before CREATE_SHADER ran.
NewShader == [shader |-> 0, valid |-> FALSE, compiled |-> "none"]

\* GLRTexture and GLRBuffer objects as constructed.
\* A GLRProgram as constructed.  `dest` are the destinations of its uniform
\* queries, `linkStatus` the device's GL_LINK_STATUS, "none" before
\* CREATE_PROGRAM ran.
NewProgram ==
    [program |-> 0, linkStatus |-> "none", uniforms |-> {},
     dest |-> [q \in Queries |-> -1]]

NewObjects ==
    [textures |-> [t \in TextureIds |-> [texture |-> 0]],
     buffers |-> [b \in BufferIds |-> [buffer |-> 0]],
     programs |-> [p \in ProgramIds |-> NewProgram]]

InitRun(curFramebuffer) ==
    [currentDrawHandle_ |-> 0, currentReadHandle_ |-> 0,
     curFBWidth_ |-> 0, curFBHeight_ |-> 0,
     curFB_ |-> NULL, curFramebuffer_ |-> curFramebuffer,
     targetWidth_ |-> TargetWidth, targetHeight_ |-> TargetHeight,
     globalVAO_ |-> 1, nameCache_ |-> <<>>]

NoLoc == [kind |-> "none"]

World ==
    [gl |-> gl, calls |-> calls, fbs |-> fbs, shaders |-> shaders, objs |-> objs,
     run |-> run, loc |-> loc, crashed |-> crashed]

\* The world at the start of an operation: its call log is empty.
Fresh == [World EXCEPT !.calls = <<>>]

Commit(w) ==
    /\ gl' = w.gl
    /\ calls' = w.calls
    /\ fbs' = w.fbs
    /\ shaders' = w.shaders
    /\ objs' = w.objs
    /\ run' = w.run
    /\ loc' = w.loc
    /\ crashed' = w.crashed

\* Mutant: a tag outside the enumeration is skipped.
UnknownTag_Skipped(w) == w

\* default: Crash(); the process ends there, whatever was left of the list.
UnknownTag(w) == [w EXCEPT !.crashed = TRUE]

----------------------------------------------------------------------------
\* Framebuffer creation (CREATE_FRAMEBUFFER init step).

\* One renderbuffer serving depth and stencil, attached to a new binding of
\* fbo->handle: the GLES packed branch and the desktop branch.
CreateCombined(w, f, format) ==
    LET w1 == [w EXCEPT !.fbs[f].stencil_buffer = 0, !.fbs[f].z_buffer = 0]
        rb == w1.gl.nextRb
        w2 == [GenRenderbuffer(w1, "glGenRenderbuffers")
                 EXCEPT !.fbs[f].z_stencil_buffer = rb]
        w3 == glRenderbufferStorage(
                  glBindRenderbuffer(w2, "glBindRenderbuffer", rb),
                  "glRenderbufferStorage", format)
        w4 == glBindFramebuffer(w3, "glBindFramebuffer", "GL_FRAMEBUFFER",
                                w3.fbs[f].handle)
        w5 == glFramebufferAttach(w4, "glFramebufferTexture2D",
                                  "GL_COLOR_ATTACHMENT0", w4.fbs[f].color_texture)
        w6 == glFramebufferAttach(w5, "glFramebufferRenderbuffer",
                                  "GL_DEPTH_ATTACHMENT", rb)
    IN  glFramebufferAttach(w6, "glFramebufferRenderbuffer",
                            "GL_STENCIL_ATTACHMENT", rb)

\* Separate depth and stencil renderbuffers: the GLES branch without packed
\* depth-stencil.
CreateSeparate(w, f) ==
    LET w1 == [w EXCEPT !.fbs[f].z_stencil_buffer = 0]
        z == w1.gl.nextRb
        w2 == [GenRenderbuffer(w1, "glGenRenderbuffers") EXCEPT !.fbs[f].z_buffer = z]
        w3 == glRenderbufferStorage(
                  glBindRenderbuffer(w2, "glBindRenderbuffer", z),
                  "glRenderbufferStorage", "GL_DEPTH_COMPONENT")
        st == w3.gl.nextRb
        w4 == [GenRenderbuffer(w3, "glGenRenderbuffers")
                 EXCEPT !.fbs[f].stencil_buffer = st]
        w5 == glRenderbufferStorage(
                  glBindRenderbuffer(w4, "glBindRenderbuffer", st),
                  "glRenderbufferStorage", "GL_STENCIL_INDEX8")
        w6 == glBindFramebuffer(w5, "glBindFramebuffer", "GL_FRAMEBUFFER",
                                w5.fbs[f].handle)
        w7 == glFramebufferAttach(w6, "glFramebufferTexture2D",
                                  "GL_COLOR_ATTACHMENT0", w6.fbs[f].color_texture)
        w8 == glFramebufferAttach(w7, "glFramebufferRenderbuffer",
                                  "GL_DEPTH_ATTACHMENT", z)
    IN  glFramebufferAttach(w8, "glFramebufferRenderbuffer",
                            "GL_STENCIL_ATTACHMENT", st)

\* Mutant: the packed test of the GLES branch is inverted.
CreateRenderbuffers_PackedInverted(w, f) ==
    IF caps["IsGLES"]
    THEN IF ~caps["OES_packed_depth_stencil"]
         THEN CreateCombined(w, f, "GL_DEPTH24_STENCIL8_OES")
         ELSE CreateSeparate(w, f)
    ELSE CreateCombined(w, f, "GL_DEPTH24_STENCIL8")

\* The renderbuffer layout chosen from the capabilities.
CreateRenderbuffers(w, f) ==
    IF caps["IsGLES"]
    THEN IF caps["OES_packed_depth_stencil"]
         THEN CreateCombined(w, f, "GL_DEPTH24_STENCIL8_OES")
         ELSE CreateSeparate(w, f)
    ELSE CreateCombined(w, f, "GL_DEPTH24_STENCIL8")

\* fbo_ext_create: the EXT_framebuffer_object path of a desktop build.
fbo_ext_create(w, f) ==
    LET h == w.gl.nextFb
        w1 == [GenFramebuffer(w, "glGenFramebuffersEXT") EXCEPT !.fbs[f].handle = h]
        t == w1.gl.nextTex
        w2 == [GenTexture(w1) EXCEPT !.fbs[f].color_texture = t]
        w3 == glTexImage2D(glBindTexture(w2, t), w2.fbs[f].width, w2.fbs[f].height)
        w4 == [w3 EXCEPT !.fbs[f].stencil_buffer = 0, !.fbs[f].z_buffer = 0]
        rb == w4.gl.nextRb
        w5 == [GenRenderbuffer(w4, "glGenRenderbuffersEXT")
                 EXCEPT !.fbs[f].z_stencil_buffer = rb]
        w6 == glRenderbufferStorage(
                  glBindRenderbuffer(w5, "glBindRenderbufferEXT", rb),
                  "glRenderbufferStorageEXT", "GL_DEPTH_STENCIL_EXT")
        w7 == glBindFramebuffer(w6, "glBindFramebufferEXT", "GL_FRAMEBUFFER", h)
        w8 == glFramebufferAttach(w7, "glFramebufferTexture2DEXT",
                                  "GL_COLOR_ATTACHMENT0", t)
        w9 == glFramebufferAttach(w8, "glFramebufferRenderbufferEXT",
                                  "GL_DEPTH_ATTACHMENT", rb)
        w10 == glFramebufferAttach(w9, "glFramebufferRenderbufferEXT",
                                   "GL_STENCIL_ATTACHMENT", rb)
        w11 == glBindTexture(glBindRenderbuffer(w10, "glBindRenderbufferEXT", 0), 0)
    IN  [w11 EXCEPT !.run.currentDrawHandle_ = h, !.run.currentReadHandle_ = h]

\* InitCreateFramebuffer after its capability test: the core path.
CreateFramebufferCore(w, f) ==
    LET h == w.gl.nextFb
        w1 == [GenFramebuffer(w, "glGenFramebuffers") EXCEPT !.fbs[f].handle = h]
        t == w1.gl.nextTex
        w2 == [GenTexture(w1) EXCEPT !.fbs[f].color_texture = t]
        w3 == glTexImage2D(glBindTexture(w2, t), w2.fbs[f].width, w2.fbs[f].height)
        w4 == CreateRenderbuffers(w3, f)
        w5 == glBindTexture(glBindRenderbuffer(w4, "glBindRenderbuffer", 0), 0)
    IN  [w5 EXCEPT !.run.currentDrawHandle_ = h, !.run.currentReadHandle_ = h]

\* InitCreateFramebuffer.  A desktop build on a device with neither
\* framebuffer-object extension returns before creating anything.
InitCreateFramebuffer(w, f) ==
    LET wlife == [w EXCEPT !.fbs[f].life = "created"]
    IN  IF caps["USING_GLES2"]
        THEN CreateFramebufferCore(wlife, f)
        ELSE IF ~caps["ARB_framebuffer_object"] /\ caps["EXT_framebuffer_object"]
             THEN CreateFramebufferCore(fbo_ext_create(wlife, f), f)
             ELSE IF ~caps["ARB_framebuffer_object"]
                  THEN wlife
                  ELSE CreateFramebufferCore(wlife, f)

----------------------------------------------------------------------------
\* Framebuffer destruction.

\* Mutant: the destructor forgets the stencil renderbuffer.
DeleteRenderbuffersOf_NoStencil(w, fb) ==
    LET w1 == IF fb.z_stencil_buffer # 0
              THEN glDeleteRenderbuffers(w, fb.z_stencil_buffer) ELSE w
    IN  IF fb.z_buffer # 0 THEN glDeleteRenderbuffers(w1, fb.z_buffer) ELSE w1

\* The renderbuffers the destructor deletes: each member that is non-zero.
DeleteRenderbuffersOf(w, fb) ==
    LET w1 == IF fb.z_stencil_buffer # 0
              THEN glDeleteRenderbuffers(w, fb.z_stencil_buffer) ELSE w
        w2 == IF fb.z_buffer # 0 THEN glDeleteRenderbuffers(w1, fb.z_buffer) ELSE w1
    IN  IF fb.stencil_buffer # 0
        THEN glDeleteRenderbuffers(w2, fb.stencil_buffer) ELSE w2

\* Detach, rebind the default framebuffer and delete the FBO.  The stencil
\* attachment is not detached.
ReleaseFbo(w, fb, ext) ==
    IF fb.handle = 0 THEN w
    ELSE LET w1 == glBindFramebuffer(w, "glBindFramebuffer" \o ext,
                                     "GL_FRAMEBUFFER", fb.handle)
             w2 == glFramebufferAttach(w1, "glFramebufferTexture2D" \o ext,
                                       "GL_COLOR_ATTACHMENT0", 0)
             w3 == glFramebufferAttach(w2, "glFramebufferRenderbuffer" \o ext,
                                       "GL_DEPTH_ATTACHMENT", 0)
             w4 == glBindFramebuffer(w3, "glBindFramebuffer" \o ext,
                                     "GL_FRAMEBUFFER", g_defaultFBO)
         IN  glDeleteFramebuffers(w4, "glDeleteFramebuffers" \o ext, fb.handle)

\* GLRFramebuffer::~GLRFramebuffer
DestroyFramebufferOp(w, f) ==
    LET fb == w.fbs[f]
        w1 == IF caps["ARB_framebuffer_object"] \/ caps["IsGLES"]
              THEN DeleteRenderbuffersOf(ReleaseFbo(w, fb, ""), fb)
              ELSE IF caps["EXT_framebuffer_object"] /\ ~caps["USING_GLES2"]
                   THEN DeleteRenderbuffersOf(ReleaseFbo(w, fb, "EXT"), fb)
                   ELSE w
        w2 == glDeleteTextures(w1, fb.color_texture)
    IN  [w2 EXCEPT !.fbs[f].life = "destroyed"]

----------------------------------------------------------------------------
\* Shader creation (CREATE_SHADER init step).  `ok` is the compile status the
\* device reports.

\* The assignments to shader->valid at the end of the step: false inside the
\* failure branch, then true on every path.
SetShaderValid(sh, ok) ==
    LET failed == IF ~ok THEN [sh EXCEPT !.valid = FALSE] ELSE sh
    IN  [failed EXCEPT !.valid = TRUE]

CreateShaderOp(w, s, ok) ==
    LET name == w.gl.nextShader
        w1 == Emit([w EXCEPT !.gl.liveShader = @ \cup {name},
                             !.gl.nextShader = @ + 1,
                             !.shaders[s].shader = name],
                   Call("glCreateShader", "", name, 0))
        w2 == Release(Emit(w1, Call("glShaderSource", "", name, 0)),
                      "create_shader.code")
        w3 == Emit(w2, Call("glCompileShader", "", name, 0))
        w4 == [w3 EXCEPT !.shaders[s].compiled = IF ok THEN "ok" ELSE "failed"]
        w5 == IF ok THEN w4
              ELSE Emit([w4 EXCEPT !.gl.liveShader = @ \ {name}],
                        Call("glDeleteShader", "", name, 0))
    IN  [w5 EXCEPT !.shaders[s] = SetShaderValid(@, ok)]

----------------------------------------------------------------------------
\* RunInitSteps: the loop over the init steps.  The list is the producer's
\* and of any length: each step action below executes its next step,
\* whatever the producer put there, and RunInitSteps_End is the end of the
\* list.  `ctl.pc` is the loop the executor is in, `ctl.n` whether the
\* running render pass has executed a command yet.

Idle == [pc |-> "idle", n |-> 0]

Running(pc) == ctl.pc = pc /\ ~crashed

StepDone == UNCHANGED ctl

RunInitSteps_Begin ==
    /\ ctl.pc = "idle" /\ ~crashed
    /\ ctl' = [pc |-> "init", n |-> 0]
    /\ Commit([glActiveTexture(Fresh, GL_TEXTURE0)
                 EXCEPT !.loc = [kind |-> "init", boundTexture |-> NO_NAME]])
    /\ last' = Cmd("RunInitSteps", 0, 0, 0)
    /\ UNCHANGED caps

RunInitSteps_End ==
    /\ Running("init")
    /\ ctl' = Idle
    /\ loc' = NoLoc
    /\ UNCHANGED <<caps, gl, fbs, shaders, objs, run, calls, last, crashed>>

InitStep_CREATE_SHADER ==
    /\ Running("init")
    /\ \E s \in ShaderIds, ok \in BOOLEAN :
        /\ shaders[s].compiled = "none"
        /\ Commit(CreateShaderOp(Fresh, s, ok))
        /\ last' = Cmd("CREATE_SHADER", s, IF ok THEN 1 ELSE 0, 0)
    /\ StepDone
    /\ UNCHANGED caps

InitStep_CREATE_INPUT_LAYOUT ==
    /\ Running("init")
    /\ Commit(Fresh)
    /\ last' = Cmd("CREATE_INPUT_LAYOUT", 0, 0, 0)
    /\ StepDone
    /\ UNCHANGED caps

InitStep_CREATE_FRAMEBUFFER ==
    /\ Running("init")
    /\ \E f \in FbIds :
        /\ fbs[f].life = "new"
        /\ Commit(InitCreateFramebuffer([Fresh EXCEPT !.loc.boundTexture = NO_NAME], f))
        /\ last' = Cmd("CREATE_FRAMEBUFFER", f, 0, 0)
    /\ StepDone
    /\ UNCHANGED caps

\* default: Crash()
InitStep_Unknown ==
    /\ Running("init")
    /\ Commit(UnknownTag(Fresh))
    /\ last' = Cmd("Crash", 0, 0, 0)
    /\ UNCHANGED <<caps, ctl>>

\* delete of a GLRFramebuffer, between runs of the queues.
DestroyFramebuffer ==
    /\ ctl.pc = "idle" /\ ~crashed
    /\ \E f \in FbIds :
        /\ fbs[f].life = "created"
        /\ Commit(DestroyFramebufferOp(Fresh, f))
        /\ last' = Cmd("DestroyFramebuffer", f, 0, 0)
    /\ UNCHANGED <<caps, ctl>>

\* The state after construction.  `curFramebuffer_` is a member this file
\* reads (VIEWPORT, SCISSOR) and never writes; `curs` are the values it may
\* hold, `fbufs` those of GLRFramebuffer::framebuf.
InitObjects(fbufs, curs) ==
    /\ gl = InitGL
    /\ fbs \in {[f \in FbIds |-> NewFramebuffer(f, v[f])] : v \in [FbIds -> fbufs]}
    /\ shaders = [s \in ShaderIds |-> NewShader]
    /\ objs = NewObjects
    /\ run \in {InitRun(c) : c \in curs}
    /\ loc = NoLoc
    /\ ctl = Idle
    /\ calls = <<>>
    /\ last = Cmd("none", 0, 0, 0)
    /\ crashed = FALSE

InitCaps ==
    CapsOver({"USING_GLES2", "IsGLES", "ARB_framebuffer_object",
              "EXT_framebuffer_object", "OES_packed_depth_stencil"})

InitInit == caps \in InitCaps /\ InitObjects({0}, {NULL})

NextInit ==
    \/ RunInitSteps_Begin
    \/ InitStep_CREATE_SHADER
    \/ InitStep_CREATE_INPUT_LAYOUT
    \/ InitStep_CREATE_FRAMEBUFFER
    \/ InitStep_Unknown
    \/ RunInitSteps_End
    \/ DestroyFramebuffer

SpecInit == InitInit /\ [][NextInit]_vars

----------------------------------------------------------------------------
\* Texture and buffer creation (CREATE_TEXTURE, CREATE_BUFFER init steps).

CreateTextureOp(w, t) ==
    LET name == w.gl.nextTex
        w1 == [GenTexture(w) EXCEPT !.objs.textures[t].texture = name]
    IN  [glBindTexture(w1, name) EXCEPT !.loc.boundTexture = name]

CreateBufferOp(w, b, target) ==
    LET name == w.gl.nextBuffer
        w1 == Emit([w EXCEPT !.gl.liveBuffer = @ \cup {name}, !.gl.nextBuffer = @ + 1,
                             !.objs.buffers[b].buffer = name],
                   Call("glGenBuffers", "", name, 0))
    IN  Emit(glBindBuffer(w1, target, name), Call("glBufferData", "", target, 0))

----------------------------------------------------------------------------
\* Program creation (CREATE_PROGRAM init step).

\* glAttachShader for shaders[i], i < num_shaders, from entry i on.
RECURSIVE AttachLoop(_, _, _, _)
AttachLoop(w, h, i, num_shaders) ==
    IF i > num_shaders THEN w
    ELSE AttachLoop(Emit(w, Call("glAttachShader", "", h, w.shaders[i].shader)),
                    h, i + 1, num_shaders)

\* glBindAttribLocation for the entries of semantics_, one per slot 0 and 1.
BindAttribLocations(w, h) ==
    Emit(Emit(w, Call("glBindAttribLocation", "", h, 0)),
         Call("glBindAttribLocation", "", h, 1))

\* The fragment output bindings: two indexed calls for dual source, one
\* call on a desktop GL 3.3, none otherwise.
BindFragData(w, h, frag) ==
    IF frag = "dual"
    THEN Emit(Emit(w, Call("glBindFragDataLocationIndexed", "fragColor0", h, 0)),
              Call("glBindFragDataLocationIndexed", "fragColor1", h, 1))
    ELSE IF frag = "single"
         THEN Emit(w, Call("glBindFragDataLocation", "fragColor0", h, 0))
         ELSE w

\* The query loop: *x.dest = glGetUniformLocation(program, x.name), which is
\* the slot q for a uniform the program has and -1 for one it has not.
RECURSIVE QueryLoop(_, _, _, _)
QueryLoop(w, p, q, found) ==
    IF q \notin Queries THEN w
    ELSE QueryLoop(Emit([w EXCEPT !.objs.programs[p].dest[q] =
                                    IF q \in found THEN q ELSE -1],
                        Call("glGetUniformLocation", "", w.objs.programs[p].program, q)),
                   p, q + 1, found)

\* The initializer loop: glUniform1i on each destination that is not -1.
RECURSIVE InitializerLoop(_, _, _)
InitializerLoop(w, p, q) ==
    IF q \notin Queries THEN w
    ELSE InitializerLoop(IF w.objs.programs[p].dest[q] # -1
                         THEN Emit(w, Call("glUniform1i", "", w.objs.programs[p].dest[q], 0))
                         ELSE w,
                         p, q + 1)

glUseProgram(w, name) ==
    Emit([w EXCEPT !.gl.program = name], Call("glUseProgram", "", name, 0))

\* The work after a successful link.
PostLink(w, p, found) ==
    InitializerLoop(QueryLoop(glUseProgram(w, w.objs.programs[p].program), p, 0, found),
                    p, 0)

\* Mutant: a failed link does not leave the step.
CreateProgramOp_NoBreak(w, p, num_shaders, frag, linked, found, cont) ==
    LET h == w.gl.nextShader
        w1 == Emit([w EXCEPT !.gl.liveProgram = @ \cup {h}, !.gl.nextShader = @ + 1,
                             !.objs.programs[p].program = h],
                   Call("glCreateProgram", "", h, 0))
        w2 == BindFragData(BindAttribLocations(AttachLoop(w1, h, 1, num_shaders), h),
                           h, frag)
        w3 == [Emit(w2, Call("glLinkProgram", "", h, 0))
                 EXCEPT !.objs.programs[p].linkStatus = IF linked THEN "ok" ELSE "failed",
                        !.objs.programs[p].uniforms = IF linked THEN found ELSE {}]
    IN  IF num_shaders = 0 /\ ~cont
        THEN [w1 EXCEPT !.crashed = TRUE]
        ELSE PostLink(w3, p, found)

\* CREATE_PROGRAM.  `linked` is the link status the device reports, `found`
\* the queried uniforms the linked program has, `cont` whether the handler
\* of the failed num_shaders assertion returns.
CreateProgramOp(w, p, num_shaders, frag, linked, found, cont) ==
    LET h == w.gl.nextShader
        w1 == Emit([w EXCEPT !.gl.liveProgram = @ \cup {h}, !.gl.nextShader = @ + 1,
                             !.objs.programs[p].program = h],
                   Call("glCreateProgram", "", h, 0))
        w2 == BindFragData(BindAttribLocations(AttachLoop(w1, h, 1, num_shaders), h),
                           h, frag)
        w3 == [Emit(w2, Call("glLinkProgram", "", h, 0))
                 EXCEPT !.objs.programs[p].linkStatus = IF linked THEN "ok" ELSE "failed",
                        !.objs.programs[p].uniforms = IF linked THEN found ELSE {}]
    IN  IF num_shaders = 0 /\ ~cont
        THEN [w1 EXCEPT !.crashed = TRUE]
        ELSE IF ~linked THEN w3 ELSE PostLink(w3, p, found)

\* The fragment output bindings a build and device can ask for.
FragChoices ==
    IF caps["USING_GLES2"]
    THEN IF ~caps["IOS"] /\ caps["GLES3"] THEN {"none", "dual"} ELSE {"none"}
    ELSE {"none", "single", "dual"}

InitStep_CREATE_PROGRAM ==
    /\ Running("init")
    /\ \E p \in ProgramIds, num_shaders \in 0..Cardinality(ShaderIds),
          frag \in FragChoices, linked \in BOOLEAN, found \in SUBSET Queries,
          cont \in BOOLEAN :
        /\ objs.programs[p].linkStatus = "none" /\ objs.programs[p].program = 0
        /\ Commit(CreateProgramOp(Fresh, p, num_shaders, frag, linked, found, cont))
        /\ last' = Cmd("CREATE_PROGRAM", p, num_shaders, IF linked THEN 1 ELSE 0)
    /\ StepDone
    /\ UNCHANGED caps

\* The init queue of shader and program creations, on a desktop and on a
\* GLES3 build.
ProgramCaps ==
    {c \in CapsOver({"USING_GLES2", "IsGLES", "GLES3"}) :
        c["USING_GLES2"] = c["IsGLES"] /\ c["GLES3"] = c["IsGLES"]}

InitProgram == caps \in ProgramCaps /\ InitObjects({0}, {NULL})

NextProgram ==
    \/ RunInitSteps_Begin
    \/ InitStep_CREATE_SHADER
    \/ InitStep_CREATE_PROGRAM
    \/ InitStep_CREATE_INPUT_LAYOUT
    \/ RunInitSteps_End

SpecProgram == InitProgram /\ [][NextProgram]_vars

\* Mutant: the payload is deleted whatever the deleteData flag.
BufferSubdataOp_AlwaysDelete(w, b, deleteData) ==
    LET w1 == glBindBuffer(w, GL_ARRAY_BUFFER, w.objs.buffers[b].buffer)
        w2 == Emit(w1, Call("glBufferSubData", "", GL_ARRAY_BUFFER, 0))
    IN  Release(w2, "buffer_subdata.data")

\* BUFFER_SUBDATA
BufferSubdataOp(w, b, deleteData) ==
    LET w1 == glBindBuffer(w, GL_ARRAY_BUFFER, w.objs.buffers[b].buffer)
        w2 == Emit(w1, Call("glBufferSubData", "", GL_ARRAY_BUFFER, 0))
    IN  IF deleteData THEN Release(w2, "buffer_subdata.data") ELSE w2

\* The four glTexParameteri calls of TEXTURE_IMAGE.
TexParameters(w) ==
    LET p(v, name) == Emit(v, Call("glTexParameteri", "GL_TEXTURE_2D", name, 0))
    IN  p(p(p(p(w, 1), 2), 3), 4)

\* Mutant: the bind is skipped whenever some texture is tracked as bound.
TextureImageOp_TrustsTracking(w, t, width, height) ==
    LET name == w.objs.textures[t].texture
        w1 == IF w.loc.boundTexture = NO_NAME
              THEN [glBindTexture(w, name) EXCEPT !.loc.boundTexture = name]
              ELSE w
        w2 == Release(glTexImage2D(w1, width, height), "texture_image.data")
    IN  TexParameters(w2)

\* TEXTURE_IMAGE: the bind is skipped when the texture is the one this run
\* of the init queue bound last.
TextureImageOp(w, t, width, height) ==
    LET name == w.objs.textures[t].texture
        w1 == IF w.loc.boundTexture # name
              THEN [glBindTexture(w, name) EXCEPT !.loc.boundTexture = name]
              ELSE w
        w2 == Release(glTexImage2D(w1, width, height), "texture_image.data")
    IN  TexParameters(w2)

\* A CREATE_TEXTURE step for one of the textures T.
CreateTextureStep(T) ==
    /\ Running("init")
    /\ \E t \in T :
        /\ objs.textures[t].texture = 0
        /\ Commit(CreateTextureOp(Fresh, t))
        /\ last' = Cmd("CREATE_TEXTURE", t, 0, 0)
    /\ StepDone
    /\ UNCHANGED caps

InitStep_CREATE_TEXTURE == CreateTextureStep(TextureIds)

InitStep_CREATE_BUFFER ==
    /\ Running("init")
    /\ \E b \in BufferIds, target \in {GL_ARRAY_BUFFER, GL_ELEMENT_ARRAY_BUFFER} :
        /\ objs.buffers[b].buffer = 0
        /\ Commit(CreateBufferOp(Fresh, b, target))
        /\ last' = Cmd("CREATE_BUFFER", b, target, 0)
    /\ StepDone
    /\ UNCHANGED caps

InitStep_BUFFER_SUBDATA ==
    /\ Running("init")
    /\ \E b \in BufferIds, deleteData \in BOOLEAN :
        /\ objs.buffers[b].buffer # 0
        /\ Commit(BufferSubdataOp(Fresh, b, deleteData))
        /\ last' = Cmd("BUFFER_SUBDATA", b, IF deleteData THEN 1 ELSE 0, 0)
    /\ StepDone
    /\ UNCHANGED caps

\* A TEXTURE_IMAGE step for one of the textures T.
TextureImageStep(T) ==
    /\ Running("init")
    /\ \E t \in T, size \in {1, 4} :
        /\ objs.textures[t].texture # 0
        /\ Commit(TextureImageOp(Fresh, t, size, size))
        /\ last' = Cmd("TEXTURE_IMAGE", t, size, 0)
    /\ StepDone
    /\ UNCHANGED caps

InitStep_TEXTURE_IMAGE == TextureImageStep(TextureIds)

\* TEXTURE_SUBDATA: the case is empty.
InitStep_TEXTURE_SUBDATA ==
    /\ Running("init")
    /\ Commit(Fresh)
    /\ last' = Cmd("TEXTURE_SUBDATA", 0, 0, 0)
    /\ StepDone
    /\ UNCHANGED caps

\* The init queue with several textures (SpecTrack): creations and uploads
\* of the textures 1..MaxTextures, and framebuffer creations between them.
MaxTextures == 2

Track_CREATE_TEXTURE == CreateTextureStep(1..MaxTextures)

Track_TEXTURE_IMAGE == TextureImageStep(1..MaxTextures)

TrackCaps == CapsOver({"ARB_framebuffer_object", "EXT_framebuffer_object"})

InitTrack ==
    /\ caps \in TrackCaps
    /\ gl = InitGL
    /\ fbs = [f \in FbIds |-> NewFramebuffer(f, 0)]
    /\ shaders = [s \in ShaderIds |-> NewShader]
    /\ objs = [NewObjects EXCEPT !.textures = [t \in 1..MaxTextures |-> [texture |-> 0]]]
    /\ run = InitRun(NULL)
    /\ loc = NoLoc
    /\ ctl = Idle
    /\ calls = <<>>
    /\ last = Cmd("none", 0, 0, 0)
    /\ crashed = FALSE

NextTrack ==
    \/ RunInitSteps_Begin
    \/ Track_CREATE_TEXTURE
    \/ Track_TEXTURE_IMAGE
    \/ InitStep_CREATE_FRAMEBUFFER
    \/ InitStep_TEXTURE_SUBDATA
    \/ RunInitSteps_End

SpecTrack == InitTrack /\ [][NextTrack]_vars

\* The init queue of creations and uploads.  The upload steps read no
\* capability flag: a desktop context with framebuffer objects.
UploadCaps ==
    {c \in CapsOver({"ARB_framebuffer_object"}) : c["ARB_framebuffer_object"]}

InitUpload == caps \in UploadCaps /\ InitObjects({0}, {NULL})

NextUpload ==
    \/ RunInitSteps_Begin
    \/ InitStep_CREATE_TEXTURE
    \/ InitStep_CREATE_BUFFER
    \/ InitStep_BUFFER_SUBDATA
    \/ InitStep_TEXTURE_IMAGE
    \/ InitStep_TEXTURE_SUBDATA
    \/ InitStep_CREATE_SHADER
    \/ InitStep_CREATE_FRAMEBUFFER
    \/ RunInitSteps_End

SpecUpload == InitUpload /\ [][NextUpload]_vars

----------------------------------------------------------------------------
\* Framebuffer binding.

\* fbo_get_fb_target: the bind target and the cache member that goes with it.
fbo_get_fb_target(read) ==
    LET supportsBlit == IF caps["IsGLES"]
                        THEN caps["GLES3"] \/ caps["NV_framebuffer_blit"]
                        ELSE caps["ARB_framebuffer_object"]
    IN  IF supportsBlit
        THEN IF read
             THEN [target |-> "GL_READ_FRAMEBUFFER", cached |-> "currentReadHandle_"]
             ELSE [target |-> "GL_DRAW_FRAMEBUFFER", cached |-> "currentDrawHandle_"]
        ELSE [target |-> "GL_FRAMEBUFFER", cached |-> "currentDrawHandle_"]

\* Mutant: the cached handle is not updated after the bind.
fbo_bind_fb_target_NoCacheUpdate(w, read, name) ==
    LET t == fbo_get_fb_target(read)
    IN  IF w.run[t.cached] # name
        THEN IF caps["ARB_framebuffer_object"] \/ caps["IsGLES"]
             THEN glBindFramebuffer(w, "glBindFramebuffer", t.target, name)
             ELSE glBindFramebuffer(w, "glBindFramebufferEXT", t.target, name)
        ELSE w

fbo_bind_fb_target(w, read, name) ==
    LET t == fbo_get_fb_target(read)
    IN  IF w.run[t.cached] # name
        THEN LET w1 == IF caps["ARB_framebuffer_object"] \/ caps["IsGLES"]
                       THEN glBindFramebuffer(w, "glBindFramebuffer", t.target, name)
                       ELSE IF ~caps["USING_GLES2"]
                            THEN glBindFramebuffer(w, "glBindFramebufferEXT", t.target, name)
                            ELSE w
             IN  [w1 EXCEPT !.run[t.cached] = name]
        ELSE w

fbo_unbind(w) ==
    LET w1 == IF caps["USING_GLES2"] \/ caps["ARB_framebuffer_object"] \/ caps["IsGLES"]
              THEN glBindFramebuffer(w, "glBindFramebuffer", "GL_FRAMEBUFFER", g_defaultFBO)
              ELSE IF caps["EXT_framebuffer_object"]
                   THEN glBindFramebuffer(w, "glBindFramebufferEXT", "GL_FRAMEBUFFER",
                                          g_defaultFBO)
                   ELSE w
        w2 == IF caps["IOS"] THEN Emit(w1, Call("bindDefaultFBO", "", 0, 0)) ELSE w1
    IN  [w2 EXCEPT !.run.currentDrawHandle_ = 0, !.run.currentReadHandle_ = 0]

\* Mutant: a transfer step rebinds the default framebuffer.
PerformTransfer_Unbinds(w, op) == fbo_unbind(w)

\* PerformBlit, PerformReadback, PerformReadbackImage: the bodies are empty
\* (the blit is commented out).
PerformTransfer(w, op) == w

\* fb is the step's render.framebuffer, NULL for the backbuffer.
PerformBindFramebufferAsRenderTarget(w, fb) ==
    LET w1 == IF fb # NULL
              THEN [w EXCEPT !.run.curFBWidth_ = w.fbs[fb].width,
                             !.run.curFBHeight_ = w.fbs[fb].height]
              ELSE [w EXCEPT !.run.curFBWidth_ = w.run.targetWidth_,
                             !.run.curFBHeight_ = w.run.targetHeight_]
        w2 == [w1 EXCEPT !.run.curFB_ = fb]
    IN  IF fb # NULL
        THEN fbo_bind_fb_target(w2, FALSE, w2.fbs[fb].framebuf)
        ELSE fbo_unbind(w2)

----------------------------------------------------------------------------
\* PerformRenderPass.

\* The part before the command loop, for a non-empty command list.
PassPrologue(w, fb) ==
    LET w1 == PerformBindFramebufferAsRenderTarget(w, fb)
        w2 == glBindVertexArray(glScissorTest(w1, TRUE), w1.run.globalVAO_)
        w3 == [w2 EXCEPT !.loc = [kind |-> "pass", fb |-> fb, curProgram |-> NULL,
                                  activeTexture |-> GL_TEXTURE0, attrMask |-> 0,
                                  curArrayBuffer |-> NO_NAME,
                                  curElemArrayBuffer |-> NO_NAME]]
    IN  glActiveTexture(w3, w3.loc.activeTexture)

\* Mutant: the empty-list test is missing.
PassEntry_NoEmptyTest(w, fb, empty) == PassPrologue(w, fb)

\* PerformRenderPass up to its command loop: an empty command list returns
\* at once.
PassEntry(w, fb, empty) == IF empty THEN w ELSE PassPrologue(w, fb)

\* The slot switch shared by BINDTEXTURE and BIND_FB_TEXTURE: `slot` is
\* compared with the tracked activeTexture.
SelectSlot(w, slot) ==
    IF slot # w.loc.activeTexture
    THEN [glActiveTexture(w, GL_TEXTURE0 + slot) EXCEPT !.loc.activeTexture = slot]
    ELSE w

\* BINDTEXTURE: tex is the command's GLRTexture, NULL for none.
BindTexture(w, slot, tex) ==
    LET w1 == SelectSlot(w, slot)
    IN  IF tex # NULL
        THEN glBindTexture(w1, w1.objs.textures[tex].texture)
        ELSE glBindTexture(w1, 0)

BindFbTexture(w, slot, fb, aspect) ==
    LET w1 == SelectSlot(w, slot)
    IN  IF aspect = GL_COLOR_BUFFER_BIT
        THEN glBindTexture(w1, w1.fbs[fb].color_texture)
        ELSE w1

\* mask & bit, for a single-bit `bit`.
HasBit(mask, bit) == (mask \div bit) % 2 = 1

\* The slots i with mask & (1 << i).
Bits(mask) == {i \in Semantics : HasBit(mask, 2 ^ i)}

\* Mutant: the disable set is computed from the new mask alone.
DisableSet_Mutant(mask, attrMask) == Semantics \ Bits(mask)

\* enable = mask & ~attrMask, disable = ~mask & attrMask, as sets of slots.
EnableSet(mask, attrMask) == Bits(mask) \ Bits(attrMask)

DisableSet(mask, attrMask) == Bits(attrMask) \ Bits(mask)

\* The loop for (i = 0; i < 7; i++) of BIND_INPUT_LAYOUT, from slot i on.
RECURSIVE AttribLoop(_, _, _, _)
AttribLoop(w, i, enable, disable) ==
    IF i >= SEM_MAX THEN w
    ELSE LET w1 == IF i \in enable THEN glEnableVertexAttribArray(w, i) ELSE w
             w2 == IF i \in disable THEN glDisableVertexAttribArray(w1, i) ELSE w1
         IN  AttribLoop(w2, i + 1, enable, disable)

\* The glVertexAttribPointer calls of the entries of a layout, which has one
\* entry per semantic of its mask, from slot i on.
RECURSIVE EntryLoop(_, _, _)
EntryLoop(w, i, mask) ==
    IF i >= SEM_MAX THEN w
    ELSE EntryLoop(IF i \in Bits(mask)
                   THEN Emit(w, Call("glVertexAttribPointer", "", i, 0)) ELSE w,
                   i + 1, mask)

\* BIND_INPUT_LAYOUT: mask is layout->semanticsMask_.
BindInputLayout(w, mask) ==
    LET w1 == AttribLoop(w, 0, EnableSet(mask, w.loc.attrMask),
                         DisableSet(mask, w.loc.attrMask))
    IN  EntryLoop([w1 EXCEPT !.loc.attrMask = mask], 0, mask)

\* Mutant: the element target is filtered against the array target's cache.
BindBuffer_SharedCache(w, target, buf) ==
    LET name == IF buf # NULL THEN w.objs.buffers[buf].buffer ELSE 0
    IN  IF target \in {GL_ARRAY_BUFFER, GL_ELEMENT_ARRAY_BUFFER}
        THEN IF name # w.loc.curArrayBuffer
             THEN [glBindBuffer(w, target, name) EXCEPT !.loc.curArrayBuffer = name]
             ELSE w
        ELSE glBindBuffer(w, target, name)

\* BIND_BUFFER: buf is the command's GLRBuffer, NULL for none.
BindBuffer(w, target, buf) ==
    LET name == IF buf # NULL THEN w.objs.buffers[buf].buffer ELSE 0
    IN  IF target = GL_ARRAY_BUFFER
        THEN IF name # w.loc.curArrayBuffer
             THEN [glBindBuffer(w, GL_ARRAY_BUFFER, name)
                     EXCEPT !.loc.curArrayBuffer = name]
             ELSE w
        ELSE IF target = GL_ELEMENT_ARRAY_BUFFER
             THEN IF name # w.loc.curElemArrayBuffer
                  THEN [glBindBuffer(w, GL_ELEMENT_ARRAY_BUFFER, name)
                          EXCEPT !.loc.curElemArrayBuffer = name]
                  ELSE w
             ELSE glBindBuffer(w, target, name)

Clear(w, clearMask) ==
    LET w1 == Emit(glScissorTest(w, FALSE), Call("glColorMask", "", 1, 1))
        w2 == IF HasBit(clearMask, GL_COLOR_BUFFER_BIT)
              THEN Emit(w1, Call("glClearColor", "", 0, 0)) ELSE w1
        w3 == IF HasBit(clearMask, GL_DEPTH_BUFFER_BIT)
              THEN Emit(w2, Call("glClearDepth", "", 0, 0)) ELSE w2
        w4 == IF HasBit(clearMask, GL_STENCIL_BUFFER_BIT)
              THEN Emit(w3, Call("glClearStencil", "", 0, 0)) ELSE w3
    IN  glScissorTest(Emit(w4, Call("glClear", "", clearMask, 0)), TRUE)

\* The Y coordinate VIEWPORT and SCISSOR pass to the device.
FlipY(w, y, h) ==
    IF w.run.curFramebuffer_ = NULL THEN w.run.curFBHeight_ - y - h ELSE y

Viewport(w, y, h) ==
    Emit(Emit(w, Call("glViewport", "", FlipY(w, y, h), h)), Call("glDepthRange", "", 0, 1))

Scissor(w, y, h) == Emit(w, Call("glScissor", "", FlipY(w, y, h), h))

\* BINDPROGRAM
BindProgram(w, p) ==
    [glUseProgram(w, w.objs.programs[p].program) EXCEPT !.loc.curProgram = p]

\* *c.uniform4.loc: a location pointer is the address of the destination
\* of a uniform query of program 1, 10 + q for query q.
Deref(w, ptr) == w.objs.programs[1].dest[ptr - 10]

\* GLRProgram::GetUniformLoc(name), for the name of uniform q = name - 1:
\* the slot of the uniform in the program, -1 if the program has none of
\* that name.
GetUniformLoc(w, p, name) ==
    IF name - 1 \in w.objs.programs[p].uniforms THEN name - 1 ELSE -1

\* The device call of a uniform command of `count` components.
UniformCall(op, count, slot) ==
    LET f == IF op = "UNIFORMMATRIX" THEN "glUniformMatrix4fv"
             ELSE IF op = "UNIFORM4F"
                  THEN <<"glUniform1f", "glUniform2fv", "glUniform3fv", "glUniform4fv">>[count]
                  ELSE <<"glUniform1iv", "glUniform2iv", "glUniform3iv", "glUniform4iv">>[count]
    IN  Call(f, "", slot, 0)

\* UNIFORM4F, UNIFORM4I, UNIFORMMATRIX.  With a name and no program bound
\* the lookup goes through a null curProgram: `ub` is what that does, end
\* the process or yield some slot.
UniformOp(w, op, ptr, name, count, ub) ==
    LET loc0 == IF ptr # NULL THEN Deref(w, ptr) ELSE -1
        p == w.loc.curProgram
        w1 == IF name # NULL THEN Emit(w, Call("GetUniformLoc", "", p, name)) ELSE w
        slot == IF name = NULL THEN loc0
                ELSE IF p = NULL THEN ub.slot ELSE GetUniformLoc(w, p, name)
    IN  IF name # NULL /\ p = NULL /\ ub.crash
        THEN [w1 EXCEPT !.crashed = TRUE]
        ELSE IF slot >= 0 THEN Emit(w1, UniformCall(op, count, slot)) ELSE w1

\* DRAW
Draw(w, first, count) == Emit(w, Call("glDrawArrays", "", first, count))

\* Mutant: every instance count but 0 draws.
DrawIndexed_AnyInstances(w, count, instances) ==
    IF instances >= 1 THEN Emit(w, Call("glDrawElements", "", count, 0)) ELSE w

\* DRAW_INDEXED
DrawIndexed(w, count, instances) ==
    IF instances = 1 THEN Emit(w, Call("glDrawElements", "", count, 0)) ELSE w

ExecCommand(w, c) ==
    CASE c.op = "BINDTEXTURE" -> BindTexture(w, c.a, c.b)
      [] c.op = "DRAW" -> Draw(w, c.a, c.b)
      [] c.op = "DRAW_INDEXED" -> DrawIndexed(w, c.a, c.b)
      [] c.op = "BINDPROGRAM" -> BindProgram(w, c.a)
      [] c.op = "BIND_FB_TEXTURE" -> BindFbTexture(w, c.a, c.b, c.c)
      [] c.op = "BIND_INPUT_LAYOUT" -> BindInputLayout(w, c.a)
      [] c.op = "BIND_BUFFER" -> BindBuffer(w, c.a, c.b)
      [] c.op = "CLEAR" -> Clear(w, c.a)
      [] c.op = "VIEWPORT" -> Viewport(w, c.a, c.b)
      [] c.op = "SCISSOR" -> Scissor(w, c.a, c.b)
      [] OTHER -> UnknownTag(w)

\* The loop for (i = 0; i < 7; i++) after the commands, from slot i on.
RECURSIVE DisableLoop(_, _)
DisableLoop(w, i) ==
    IF i >= SEM_MAX THEN w
    ELSE DisableLoop(IF HasBit(w.loc.attrMask, 2 ^ i) THEN glDisableVertexAttribArray(w, i) ELSE w,
                     i + 1)

\* Mutant: the epilogue leaves the buffer bindings alone.
PassEpilogue_NoBufferReset(w) ==
    LET w1 == DisableLoop(w, 0)
        w2 == IF w1.loc.activeTexture # GL_TEXTURE0
              THEN glActiveTexture(w1, GL_TEXTURE0) ELSE w1
    IN  glScissorTest(glBindVertexArray(w2, 0), FALSE)

\* The part after the command loop.
PassEpilogue(w) ==
    LET w1 == DisableLoop(w, 0)
        w2 == IF w1.loc.activeTexture # GL_TEXTURE0
              THEN glActiveTexture(w1, GL_TEXTURE0) ELSE w1
        w3 == glBindBuffer(glBindBuffer(w2, GL_ARRAY_BUFFER, 0),
                           GL_ELEMENT_ARRAY_BUFFER, 0)
    IN  glScissorTest(glBindVertexArray(w3, 0), FALSE)

CmdsBindTexture ==
    {Cmd("BINDTEXTURE", s, t, 0) : s \in Slots, t \in {NULL} \cup TextureIds}

CmdsBindFbTexture ==
    {Cmd("BIND_FB_TEXTURE", s, f, a) :
        s \in Slots, f \in FbIds, a \in {GL_COLOR_BUFFER_BIT, GL_DEPTH_BUFFER_BIT}}

\* The semantics masks of the layouts of the producer: every mask over the
\* slots 0, 1, 2, 5 and 6.
LayoutMasks == {m \in 0..(2 ^ SEM_MAX - 1) : Bits(m) \subseteq {0, 1, 2, 5, 6}}

CmdsBindInputLayout == {Cmd("BIND_INPUT_LAYOUT", m, 0, 0) : m \in LayoutMasks}

CmdsBindBuffer ==
    {Cmd("BIND_BUFFER", t, b, 0) :
        t \in {GL_ARRAY_BUFFER, GL_ELEMENT_ARRAY_BUFFER, GL_UNIFORM_BUFFER},
        b \in {NULL} \cup BufferIds}

CmdsClear ==
    {Cmd("CLEAR", m, 0, 0) :
        m \in {GL_COLOR_BUFFER_BIT, GL_COLOR_BUFFER_BIT + GL_DEPTH_BUFFER_BIT}}

CmdsViewport == {Cmd(op, y, h, 0) : op \in {"VIEWPORT", "SCISSOR"}, y \in 0..MaxY, h \in 1..2}

CmdsUnknown == {Cmd("UNKNOWN", 0, 0, 0)}

----------------------------------------------------------------------------
\* PerformCopy.

\* GLRFramebuffer *src = step.copy.src;
CopySrc(src, dst) == src

\* GLRFramebuffer *dst = step.copy.src;
CopyDst(src, dst) == src

\* The device copy call the build and the extensions select, if any.
CopyImageSubData(w, srcTex, target, dstTex) ==
    IF caps["USING_GLES2"]
    THEN IF ~caps["IOS"]
         THEN Emit(w, Call("glCopyImageSubDataOES", target, srcTex, dstTex))
         ELSE w
    ELSE IF caps["ARB_copy_image"]
         THEN Emit(w, Call("glCopyImageSubData", target, srcTex, dstTex))
         ELSE IF caps["NV_copy_image"]
              THEN Emit(w, Call("glCopyImageSubDataNV", target, srcTex, dstTex))
              ELSE w

\* `cont`: the handler of the failed _assert_msg_ of the depth case returns,
\* and execution goes on after the assertion; otherwise the process ends
\* there.
PerformCopy(w, src, dst, aspectMask, cont) ==
    LET s == w.fbs[CopySrc(src, dst)]
        d == w.fbs[CopyDst(src, dst)]
        srcTex == IF aspectMask = GL_COLOR_BUFFER_BIT THEN s.color_texture ELSE 0
        dstTex == IF aspectMask = GL_COLOR_BUFFER_BIT THEN d.color_texture ELSE 0
        target == IF aspectMask = GL_DEPTH_BUFFER_BIT
                  THEN "GL_RENDERBUFFER" ELSE "GL_TEXTURE_2D"
    IN  IF aspectMask = GL_DEPTH_BUFFER_BIT /\ ~cont
        THEN [w EXCEPT !.crashed = TRUE]
        ELSE CopyImageSubData(w, srcTex, target, dstTex)

----------------------------------------------------------------------------
\* RunSteps: the loop over the render steps, and the command loop of
\* PerformRenderPass.  As for the init queue, the lists are the producer's
\* and of any length; the command list of a pass that reaches the command
\* loop has at least one command.

RunSteps_Begin ==
    /\ ctl.pc = "idle" /\ ~crashed
    /\ ctl' = [pc |-> "steps", n |-> 0]
    /\ Commit(Fresh)
    /\ last' = Cmd("RunSteps", 0, 0, 0)
    /\ UNCHANGED caps

RunSteps_End ==
    /\ Running("steps")
    /\ ctl' = Idle
    /\ UNCHANGED <<caps, gl, fbs, shaders, objs, run, loc, calls, last, crashed>>

\* The targets a render step may name: the backbuffer or a framebuffer.
Targets == {NULL} \cup {f \in FbIds : fbs[f].life = "created"}

\* A RENDER step whose command list is empty: PerformRenderPass returns at
\* once.
Step_RENDER_Empty ==
    /\ Running("steps")
    /\ \E fb \in Targets :
        /\ Commit(PassEntry(Fresh, fb, TRUE))
        /\ last' = Cmd("RENDER_EMPTY", fb, 0, 0)
    /\ StepDone
    /\ UNCHANGED caps

\* A RENDER step whose command list is not empty: up to the command loop.
Step_RENDER_Begin ==
    /\ Running("steps")
    /\ \E fb \in Targets :
        /\ Commit(PassEntry(Fresh, fb, FALSE))
        /\ last' = Cmd("RENDER", fb, 0, 0)
    /\ ctl' = [pc |-> "pass", n |-> 0]
    /\ UNCHANGED caps

\* The next command of the pass, one of C.
PassCommand(C) ==
    /\ Running("pass")
    /\ \E c \in C :
        /\ Commit(ExecCommand(Fresh, c))
        /\ last' = c
    /\ ctl' = [ctl EXCEPT !.n = 1]
    /\ UNCHANGED caps

\* After the last command: the epilogue, and the step is done.
Pass_End ==
    /\ Running("pass") /\ ctl.n > 0
    /\ Commit([PassEpilogue(Fresh) EXCEPT !.loc = NoLoc])
    /\ last' = Cmd("RENDER_END", loc.fb, 0, 0)
    /\ ctl' = [pc |-> "steps", n |-> 0]
    /\ UNCHANGED caps

Step_COPY ==
    /\ Running("steps")
    /\ \E src \in FbIds, dst \in FbIds, cont \in BOOLEAN,
          aspectMask \in {GL_COLOR_BUFFER_BIT, GL_DEPTH_BUFFER_BIT, GL_STENCIL_BUFFER_BIT} :
        /\ Commit(PerformCopy(Fresh, src, dst, aspectMask, cont))
        /\ last' = Cmd("COPY", src, dst, aspectMask)
    /\ StepDone
    /\ UNCHANGED caps

\* BLIT, READBACK, READBACK_IMAGE
Step_Transfer ==
    /\ Running("steps")
    /\ \E op \in {"BLIT", "READBACK", "READBACK_IMAGE"} :
        /\ Commit(PerformTransfer(Fresh, op))
        /\ last' = Cmd(op, 0, 0, 0)
    /\ StepDone
    /\ UNCHANGED caps

\* default: Crash()
Step_Unknown ==
    /\ Running("steps")
    /\ Commit(UnknownTag(Fresh))
    /\ last' = Cmd("Crash", 0, 0, 0)
    /\ UNCHANGED <<caps, ctl>>

\* The state the render queue starts from: the init queue has created the
\* texture, the buffers and the framebuffers.
AfterInit(fbuf, cur) ==
    LET w0 == [gl |-> InitGL, calls |-> <<>>,
               fbs |-> [f \in FbIds |-> NewFramebuffer(f, fbuf[f])],
               shaders |-> [s \in ShaderIds |-> NewShader],
               objs |-> NewObjects, run |-> InitRun(cur),
               loc |-> [kind |-> "init", boundTexture |-> NO_NAME],
               crashed |-> FALSE]
        w1 == CreateTextureOp(glActiveTexture(w0, GL_TEXTURE0), 1)
        w2 == CreateBufferOp(CreateBufferOp(w1, 1, GL_ARRAY_BUFFER), 2, GL_ELEMENT_ARRAY_BUFFER)
    IN  CHOOSE w \in {[w4 EXCEPT !.calls = <<>>, !.loc = NoLoc] :
                        w4 \in {InitCreateFramebuffer(w3, 2) :
                                  w3 \in {InitCreateFramebuffer(w2, 1)}}} : TRUE

InitWorld(capsSet, fbufs, curs) ==
    /\ caps \in capsSet
    /\ \E fbuf \in [FbIds -> fbufs], cur \in curs :
        \E w \in {AfterInit(fbuf, cur)} :
            /\ gl = w.gl
            /\ fbs = w.fbs
            /\ shaders = w.shaders
            /\ objs = w.objs
            /\ run = w.run
            /\ loc = w.loc
            /\ calls = w.calls
            /\ crashed = w.crashed
    /\ last = Cmd("none", 0, 0, 0)

InitRender(capsSet, fbufs, curs) == InitWorld(capsSet, fbufs, curs) /\ ctl = Idle

\* The render queue: passes over commands of every kind, a few of each.
RenderCaps == CapsOver({"USING_GLES2", "IsGLES", "ARB_framebuffer_object"})

SomeCmds ==
    {Cmd("BINDTEXTURE", 0, 1, 0), Cmd("BINDTEXTURE", 1, NULL, 0),
     Cmd("BIND_FB_TEXTURE", 1, 1, GL_COLOR_BUFFER_BIT),
     Cmd("BIND_FB_TEXTURE", 0, 2, GL_DEPTH_BUFFER_BIT),
     Cmd("BIND_INPUT_LAYOUT", 3, 0, 0), Cmd("BIND_INPUT_LAYOUT", 70, 0, 0),
     Cmd("BIND_BUFFER", GL_ARRAY_BUFFER, 1, 0),
     Cmd("BIND_BUFFER", GL_ELEMENT_ARRAY_BUFFER, 2, 0),
     Cmd("BIND_BUFFER", GL_UNIFORM_BUFFER, 1, 0),
     Cmd("CLEAR", GL_COLOR_BUFFER_BIT, 0, 0),
     Cmd("VIEWPORT", 0, 2, 0), Cmd("SCISSOR", 1, 2, 0)}

Pass_Command == PassCommand(SomeCmds)

Pass_Unknown == PassCommand(CmdsUnknown)

Init == InitRender(RenderCaps, {0}, {NULL})

Next ==
    \/ RunSteps_Begin
    \/ Step_RENDER_Empty
    \/ Step_RENDER_Begin
    \/ Pass_Command
    \/ Pass_Unknown
    \/ Pass_End
    \/ Step_Transfer
    \/ Step_Unknown
    \/ RunSteps_End

Spec == Init /\ [][Next]_vars

\* Passes of texture binds: every slot, texture, framebuffer and aspect.
Pass_Textures == PassCommand(CmdsBindTexture \cup CmdsBindFbTexture)

NextTexture ==
    \/ RunSteps_Begin
    \/ Step_RENDER_Empty
    \/ Step_RENDER_Begin
    \/ Pass_Textures
    \/ Pass_End
    \/ RunSteps_End

SpecTexture == Init /\ [][NextTexture]_vars

\* Passes of input-layout binds: every pair of masks.
Pass_Layouts == PassCommand(CmdsBindInputLayout)

NextLayout ==
    \/ RunSteps_Begin
    \/ Step_RENDER_Begin
    \/ Pass_Layouts
    \/ Pass_End
    \/ RunSteps_End

\* The layout commands read no capability flag: a desktop context with
\* framebuffer objects.
LayoutCaps ==
    {c \in CapsOver({"ARB_framebuffer_object"}) : c["ARB_framebuffer_object"]}

InitLayout == InitRender(LayoutCaps, {0}, {NULL})

SpecLayout == InitLayout /\ [][NextLayout]_vars

\* Passes of viewport and scissor commands, to the backbuffer and to
\* framebuffers, under every value of curFramebuffer_.
Pass_Viewports == PassCommand(CmdsViewport)

InitViewport == InitRender(RenderCaps, {0}, {NULL} \cup FbIds)

NextViewport ==
    \/ RunSteps_Begin
    \/ Step_RENDER_Empty
    \/ Step_RENDER_Begin
    \/ Pass_Viewports
    \/ Pass_End
    \/ RunSteps_End

SpecViewport == InitViewport /\ [][NextViewport]_vars

\* The copy steps, under every copy capability.
CopyCaps ==
    CapsOver({"USING_GLES2", "IsGLES", "IOS", "ARB_framebuffer_object",
              "ARB_copy_image", "NV_copy_image"})

InitCopy == InitRender(CopyCaps, {0}, {NULL})

NextCopy ==
    \/ RunSteps_Begin
    \/ Step_COPY
    \/ Step_Transfer
    \/ Step_Unknown
    \/ RunSteps_End

SpecCopy == InitCopy /\ [][NextCopy]_vars

\* Passes of buffer binds: every target and buffer.
Pass_Buffers == PassCommand(CmdsBindBuffer)

NextBuffer ==
    \/ RunSteps_Begin
    \/ Step_RENDER_Begin
    \/ Pass_Buffers
    \/ Pass_End
    \/ RunSteps_End

SpecBuffer == InitLayout /\ [][NextBuffer]_vars

\* Passes to the backbuffer and to framebuffers of every `framebuf` value,
\* under every setting of the flags the bind target depends on.
BindCaps ==
    CapsOver({"IsGLES", "GLES3", "ARB_framebuffer_object", "EXT_framebuffer_object"})

InitBind == InitRender(BindCaps, FramebufValues, {NULL})

Pass_Clears == PassCommand(CmdsClear)

NextBind ==
    \/ RunSteps_Begin
    \/ Step_RENDER_Empty
    \/ Step_RENDER_Begin
    \/ Pass_Clears
    \/ Pass_End
    \/ RunSteps_End

SpecBind == InitBind /\ [][NextBind]_vars

----------------------------------------------------------------------------
\* Draw commands (SpecDraw).

MaxInstances == 3

\* a = c.drawIndexed.count (c.draw.first for DRAW), b =
\* c.drawIndexed.instances (c.draw.count for DRAW).
CmdsDraw ==
    {Cmd("DRAW_INDEXED", count, instances, 0) :
        count \in {3, 6}, instances \in 0..MaxInstances}
    \cup {Cmd("DRAW", 0, 3, 0)}

Pass_Draws == PassCommand(CmdsDraw)

NextDraw ==
    \/ RunSteps_Begin
    \/ Step_RENDER_Begin
    \/ Pass_Buffers
    \/ Pass_Draws
    \/ Pass_End
    \/ RunSteps_End

SpecDraw == InitLayout /\ [][NextDraw]_vars

----------------------------------------------------------------------------
\* Uniform commands (SpecUniform).

UniformOps == {"UNIFORM4F", "UNIFORM4I", "UNIFORMMATRIX"}

\* A uniform command: a = c.uniform4.loc, b = c.uniform4.name (NULL for a
\* null pointer), c = c.uniform4.count.
CmdsUniform ==
    UNION {{Cmd(op, ptr, name, count) :
              ptr \in {NULL, 10, 11}, name \in {NULL, 1, 2},
              count \in IF op = "UNIFORMMATRIX" THEN {1} ELSE 1..4} : op \in UniformOps}

\* What a call through a null curProgram can do.
NullDeref ==
    {[crash |-> TRUE, slot |-> -1], [crash |-> FALSE, slot |-> -1],
     [crash |-> FALSE, slot |-> 0]}

CmdsBindProgram == {Cmd("BINDPROGRAM", p, 0, 0) : p \in ProgramIds}

Pass_Programs == PassCommand(CmdsBindProgram)

Pass_Uniform ==
    /\ Running("pass")
    /\ \E c \in CmdsUniform :
       \E ub \in IF c.b # NULL /\ loc.curProgram = NULL
                 THEN NullDeref ELSE {[crash |-> FALSE, slot |-> -1]} :
        /\ Commit(UniformOp(Fresh, c.op, c.a, c.b, c.c, ub))
        /\ last' = c
    /\ ctl' = [ctl EXCEPT !.n = 1]
    /\ UNCHANGED caps

\* The state the render queue starts from when the init queue has also
\* created the shaders and the programs: program 1 links and has the
\* uniforms `found`, program 2 does not link.
AfterInitPrograms(found) ==
    LET w0 == [AfterInit([f \in FbIds |-> 0], NULL)
                 EXCEPT !.loc = [kind |-> "init", boundTexture |-> NO_NAME]]
    IN  CHOOSE w \in {[w4 EXCEPT !.calls = <<>>, !.loc = NoLoc] :
                        w4 \in {CreateProgramOp(w3, 2, 2, "none", FALSE, {}, TRUE) :
                          w3 \in {CreateProgramOp(w2, 1, 2, "none", TRUE, found, TRUE) :
                            w2 \in {CreateShaderOp(w1, 2, TRUE) :
                              w1 \in {CreateShaderOp(w0, 1, TRUE)}}}}} : TRUE

InitUniform ==
    /\ caps \in UploadCaps
    /\ \E found \in SUBSET Queries :
        \E w \in {AfterInitPrograms(found)} :
            /\ gl = w.gl
            /\ fbs = w.fbs
            /\ shaders = w.shaders
            /\ objs = w.objs
            /\ run = w.run
            /\ loc = w.loc
            /\ calls = w.calls
            /\ crashed = w.crashed
    /\ ctl = Idle
    /\ last = Cmd("none", 0, 0, 0)

NextUniform ==
    \/ RunSteps_Begin
    \/ Step_RENDER_Begin
    \/ Pass_Programs
    \/ Pass_Uniform
    \/ Pass_End
    \/ RunSteps_End

SpecUniform == InitUniform /\ [][NextUniform]_vars

----------------------------------------------------------------------------
\* The queues as lists.  Under SpecOrder the producer's list is fixed at the
\* start: `ctl.list` is the list handed to RunInitSteps or RunSteps, `ctl.n`
\* the loop index i, `ctl.j` the position in the command list of the running
\* pass.  `ctl.start` is the state the run began in and `ctl.trace` every
\* device call issued since, both kept for the properties.  `ctl.cont`:
\* the handler of a failed _assert_msg_ returns.

MaxLen == 3

\* Mutant: the list is walked from its end.
StepAt_FromEnd(list, i) == list[Len(list) - i]

\* steps[i], for the loop index i of for (i = 0; i < steps.size(); i++).
StepAt(list, i) == list[i + 1]

\* The switch of RunInitSteps.
ExecInitStep(w, c) ==
    CASE c.op = "CREATE_SHADER" -> CreateShaderOp(w, c.a, c.b = 1)
      [] c.op = "TEXTURE_IMAGE" -> TextureImageOp(w, c.a, c.b, c.b)
      [] c.op = "TEXTURE_SUBDATA" -> w
      [] c.op = "BUFFER_SUBDATA" -> BufferSubdataOp(w, c.a, c.b = 1)
      [] c.op = "CREATE_INPUT_LAYOUT" -> w
      [] OTHER -> UnknownTag(w)

\* The command lists of the render steps of the lists.
PassLists ==
    <<<<Cmd("BINDTEXTURE", 1, 1, 0), Cmd("CLEAR", GL_COLOR_BUFFER_BIT, 0, 0)>>,
      <<Cmd("BIND_BUFFER", GL_ARRAY_BUFFER, 1, 0), Cmd("BIND_INPUT_LAYOUT", 3, 0, 0),
        Cmd("VIEWPORT", 1, 2, 0)>>,
      <<Cmd("SCISSOR", 0, 1, 0), Cmd("UNKNOWN", 0, 0, 0),
        Cmd("CLEAR", GL_COLOR_BUFFER_BIT, 0, 0)>>>>

\* step.commands of a render step: c.c names its list, 0 the empty one.
Commands(c) == IF c.c = 0 THEN <<>> ELSE PassLists[c.c]

\* for (const auto &c : commands), from position j on; the switch's default
\* ends the run.
RECURSIVE RunCommands(_, _, _)
RunCommands(w, cmds, j) ==
    IF j >= Len(cmds) \/ w.crashed THEN w
    ELSE CHOOSE v \in {RunCommands(u, cmds, j + 1) :
                         u \in {ExecCommand(w, StepAt(cmds, j))}} : TRUE

\* PerformRenderPass of a step with framebuffer fb and command list cmds.
PerformRenderPass(w, fb, cmds) ==
    IF cmds = <<>> THEN PassEntry(w, fb, TRUE)
    ELSE CHOOSE v \in {IF u.crashed THEN u ELSE [PassEpilogue(u) EXCEPT !.loc = NoLoc] :
                         u \in {RunCommands(PassEntry(w, fb, FALSE), cmds, 0)}} : TRUE

\* The switch of RunSteps.
ExecStep(w, c, cont) ==
    CASE c.op = "RENDER" -> PerformRenderPass(w, c.a, Commands(c))
      [] c.op = "COPY" -> PerformCopy(w, c.a, c.b, c.c, cont)
      [] c.op \in {"BLIT", "READBACK", "READBACK_IMAGE"} -> PerformTransfer(w, c.op)
      [] OTHER -> UnknownTag(w)

\* The init steps of the lists: uploads to the objects that exist, the
\* creation of each shader, and a tag outside the enumeration.
InitItems ==
    {Cmd("CREATE_SHADER", 1, 1, 0), Cmd("CREATE_SHADER", 2, 0, 0),
     Cmd("TEXTURE_IMAGE", 1, 4, 0), Cmd("BUFFER_SUBDATA", 1, 1, 0),
     Cmd("BUFFER_SUBDATA", 2, 0, 0), Cmd("UNKNOWN", 0, 0, 0)}


StepItems ==
    {Cmd("RENDER", NULL, 0, 0), Cmd("RENDER", 1, 0, 1), Cmd("RENDER", NULL, 0, 2),
     Cmd("RENDER", 2, 0, 3), Cmd("BLIT", 0, 0, 0), Cmd("UNKNOWN", 0, 0, 0),
     Cmd("COPY", 1, 2, GL_COLOR_BUFFER_BIT), Cmd("COPY", 2, 1, GL_DEPTH_BUFFER_BIT)}

\* The lists of at most MaxLen items in which no object is created twice.
ListsOver(items) ==
    {l \in UNION {[1..k -> items] : k \in 0..MaxLen} :
        \A i, k \in 1..Len(l) : (l[i].op = "CREATE_SHADER" /\ l[i] = l[k]) => i = k}

Order_RunInitSteps_Begin ==
    /\ ctl.pc = "idle" /\ ctl.kind = "init" /\ ~crashed
    /\ \E w \in {[glActiveTexture(Fresh, GL_TEXTURE0)
                    EXCEPT !.loc = [kind |-> "init", boundTexture |-> NO_NAME]]} :
        /\ Commit(w)
        /\ ctl' = [ctl EXCEPT !.pc = "init", !.n = 0, !.start = w,
                              !.trace = w.calls]
    /\ last' = Cmd("RunInitSteps", 0, 0, 0)
    /\ UNCHANGED caps

Order_InitStep ==
    /\ Running("init") /\ ctl.n < Len(ctl.list)
    /\ \E w \in {ExecInitStep(Fresh, StepAt(ctl.list, ctl.n))} :
        /\ Commit(w)
        /\ ctl' = [ctl EXCEPT !.n = @ + 1, !.trace = @ \o w.calls]
    /\ last' = StepAt(ctl.list, ctl.n)
    /\ UNCHANGED caps

Order_RunInitSteps_End ==
    /\ Running("init") /\ ctl.n >= Len(ctl.list)
    /\ ctl' = [ctl EXCEPT !.pc = "done"]
    /\ loc' = NoLoc
    /\ UNCHANGED <<caps, gl, fbs, shaders, objs, run, calls, last, crashed>>

Order_RunSteps_Begin ==
    /\ ctl.pc = "idle" /\ ctl.kind = "steps" /\ ~crashed
    /\ Commit(Fresh)
    /\ ctl' = [ctl EXCEPT !.pc = "steps", !.n = 0, !.start = Fresh, !.trace = <<>>]
    /\ last' = Cmd("RunSteps", 0, 0, 0)
    /\ UNCHANGED caps

\* A step other than a render pass with commands.
Order_Step ==
    /\ Running("steps") /\ ctl.n < Len(ctl.list)
    /\ LET c == StepAt(ctl.list, ctl.n)
       IN  /\ ~(c.op = "RENDER" /\ Commands(c) # <<>>)
           /\ \E w \in {ExecStep(Fresh, c, ctl.cont)} :
                /\ Commit(w)
                /\ ctl' = [ctl EXCEPT !.n = @ + 1, !.trace = @ \o w.calls]
           /\ last' = c
    /\ UNCHANGED caps

\* A render pass with commands, up to its command loop.
Order_RENDER_Begin ==
    /\ Running("steps") /\ ctl.n < Len(ctl.list)
    /\ LET c == StepAt(ctl.list, ctl.n)
       IN  /\ c.op = "RENDER" /\ Commands(c) # <<>>
           /\ \E w \in {PassEntry(Fresh, c.a, FALSE)} :
                /\ Commit(w)
                /\ ctl' = [ctl EXCEPT !.pc = "pass", !.j = 0, !.trace = @ \o w.calls]
           /\ last' = Cmd("RENDER", c.a, 0, 0)
    /\ UNCHANGED caps

Order_Command ==
    /\ Running("pass") /\ ctl.j < Len(Commands(StepAt(ctl.list, ctl.n)))
    /\ LET c == StepAt(Commands(StepAt(ctl.list, ctl.n)), ctl.j)
       IN  /\ \E w \in {ExecCommand(Fresh, c)} :
                /\ Commit(w)
                /\ ctl' = [ctl EXCEPT !.j = @ + 1, !.trace = @ \o w.calls]
           /\ last' = c
    /\ UNCHANGED caps

\* After the last command: the epilogue, and the loop of RunSteps goes on.
Order_RENDER_End ==
    /\ Running("pass") /\ ctl.j >= Len(Commands(StepAt(ctl.list, ctl.n)))
    /\ \E w \in {[PassEpilogue(Fresh) EXCEPT !.loc = NoLoc]} :
        /\ Commit(w)
        /\ ctl' = [ctl EXCEPT !.pc = "steps", !.n = @ + 1, !.j = 0, !.trace = @ \o w.calls]
    /\ last' = Cmd("RENDER_END", loc.fb, 0, 0)
    /\ UNCHANGED caps

Order_RunSteps_End ==
    /\ Running("steps") /\ ctl.n >= Len(ctl.list)
    /\ ctl' = [ctl EXCEPT !.pc = "done"]
    /\ UNCHANGED <<caps, gl, fbs, shaders, objs, run, loc, calls, last, crashed>>

\* A desktop context with framebuffer objects and image copies.
OrderCaps ==
    {c \in CapsOver({"ARB_framebuffer_object", "ARB_copy_image"}) :
        c["ARB_framebuffer_object"] /\ c["ARB_copy_image"]}

InitOrder ==
    /\ InitWorld(OrderCaps, {0}, {NULL})
    /\ \E kind \in {"init", "steps"}, cont \in BOOLEAN :
        \E list \in ListsOver(IF kind = "init" THEN InitItems ELSE StepItems) :
            ctl = [pc |-> "idle", n |-> 0, j |-> 0, kind |-> kind, cont |-> cont,
                   list |-> list, start |-> NoLoc, trace |-> <<>>]

NextOrder ==
    \/ Order_RunInitSteps_Begin
    \/ Order_InitStep
    \/ Order_RunInitSteps_End
    \/ Order_RunSteps_Begin
    \/ Order_Step
    \/ Order_RENDER_Begin
    \/ Order_Command
    \/ Order_RENDER_End
    \/ Order_RunSteps_End

\* The executor is sequential code: a step that can be taken is taken.
SpecOrder == InitOrder /\ [][NextOrder]_vars /\ WF_vars(NextOrder)

----------------------------------------------------------------------------
\* The texture name cache (AllocTextureName, DestroyDeviceObjects).  Under
\* SpecAlloc `ctl.n` counts the calls of AllocTextureName since the cache
\* was last known empty (construction, or DestroyDeviceObjects), `ctl.gens`
\* the glGenTextures calls among them, `ctl.given` the names they returned
\* and `ctl.total` every call of AllocTextureName, all kept for the
\* properties; `ctl.destroys` counts the calls of DestroyDeviceObjects.

MaxAlloc == 33
MaxDestroys == 2

\* glGenTextures(n, names): n unused names, here the next n.
GenTextures(w, n) ==
    Emit([w EXCEPT !.gl.liveTex = @ \cup (w.gl.nextTex..(w.gl.nextTex + n - 1)),
                   !.gl.nextTex = @ + n],
         Call("glGenTextures", "batch", n, w.gl.nextTex))

\* Mutant: the name is read and left in the cache.
AllocTextureNameOp_NoPop(w) ==
    IF w.run.nameCache_ = <<>>
    THEN LET first == w.gl.nextTex
         IN  [GenTextures(w, TEXCACHE_NAME_CACHE_SIZE) EXCEPT !.run.nameCache_ =
                [i \in 1..TEXCACHE_NAME_CACHE_SIZE |-> first + i - 1]]
    ELSE w

\* AllocTextureName: the cache is refilled when empty, and its last name is
\* taken from it.  The returned name is the last element of the cache
\* before the pop.
AllocTextureNameOp(w) ==
    LET w1 == IF w.run.nameCache_ = <<>>
              THEN LET first == w.gl.nextTex
                   IN  [GenTextures(w, TEXCACHE_NAME_CACHE_SIZE) EXCEPT !.run.nameCache_ =
                          [i \in 1..TEXCACHE_NAME_CACHE_SIZE |-> first + i - 1]]
              ELSE w
    IN  [w1 EXCEPT !.run.nameCache_ = SubSeq(@, 1, Len(@) - 1)]

\* u32 name = nameCache_.back(), for the cache after the refill.
ReturnedName(w) ==
    IF w.run.nameCache_ = <<>> THEN w.gl.nextTex + TEXCACHE_NAME_CACHE_SIZE - 1
    ELSE w.run.nameCache_[Len(w.run.nameCache_)]

\* DestroyDeviceObjects: one glDeleteTextures for the names left in the
\* cache, and the vertex array object.
DestroyDeviceObjectsOp(w) ==
    LET names == {w.run.nameCache_[i] : i \in DOMAIN w.run.nameCache_}
        w1 == IF w.run.nameCache_ # <<>>
              THEN Emit([w EXCEPT !.gl.liveTex = @ \ names, !.run.nameCache_ = <<>>],
                        Call("glDeleteTextures", "batch", Len(w.run.nameCache_),
                             w.run.nameCache_[1]))
              ELSE w
    IN  Emit(w1, Call("glDeleteVertexArrays", "", w.run.globalVAO_, 0))

AllocTextureName ==
    /\ ctl.pc = "idle" /\ ~crashed /\ ctl.total < MaxAlloc
    /\ \E w \in {AllocTextureNameOp(Fresh)} :
        /\ Commit(w)
        /\ ctl' = [ctl EXCEPT !.n = @ + 1, !.total = @ + 1,
                              !.gens = @ + Len(w.calls),
                              !.given = Append(@, ReturnedName(Fresh))]
    /\ last' = Cmd("AllocTextureName", ReturnedName(Fresh), 0, 0)
    /\ UNCHANGED caps

DestroyDeviceObjects ==
    /\ ctl.pc = "idle" /\ ~crashed /\ ctl.destroys < MaxDestroys
    /\ Commit(DestroyDeviceObjectsOp(Fresh))
    /\ ctl' = [ctl EXCEPT !.n = 0, !.gens = 0, !.given = <<>>, !.destroys = @ + 1]
    /\ last' = Cmd("DestroyDeviceObjects", 0, 0, 0)
    /\ UNCHANGED caps

InitAlloc ==
    /\ caps \in UploadCaps
    /\ gl = InitGL
    /\ fbs = [f \in FbIds |-> NewFramebuffer(f, 0)]
    /\ shaders = [s \in ShaderIds |-> NewShader]
    /\ objs = NewObjects
    /\ run = InitRun(NULL)
    /\ loc = NoLoc
    /\ ctl = [pc |-> "idle", n |-> 0, total |-> 0, gens |-> 0, given |-> <<>>,
              destroys |-> 0]
    /\ calls = <<>>
    /\ last = Cmd("none", 0, 0, 0)
    /\ crashed = FALSE

NextAlloc ==
    \/ AllocTextureName
    \/ DestroyDeviceObjects

SpecAlloc == InitAlloc /\ [][NextAlloc]_vars

----------------------------------------------------------------------------
\* Properties of the init queue and of framebuffer destruction (SpecInit).

IsDeleteRenderbuffers(c) == c.f = "glDeleteRenderbuffers"

\* The renderbuffer names the operation in progress has released, in order.
ReleasedRenderbuffers ==
    LET d == SelectSeq(calls, IsDeleteRenderbuffers)
    IN  [i \in 1..Len(d) |-> d[i].a]

\* The step allocated native objects for framebuffer f.
Allocated(f) == fbs[f].life # "new" /\ fbs[f].handle # 0

Separate(fb) == fb.z_buffer # 0 /\ fb.stencil_buffer # 0 /\ fb.z_stencil_buffer = 0

Combined(fb) == fb.z_stencil_buffer # 0 /\ fb.z_buffer = 0 /\ fb.stencil_buffer = 0

Destroyed(f) == last.op = "DestroyFramebuffer" /\ last.a = f

\* C2: a shader whose compilation failed in its CREATE_SHADER step is marked
\* invalid (valid = FALSE) from the end of that step on.
C2_FailedShaderInvalid ==
    \A s \in ShaderIds : shaders[s].compiled = "failed" => ~shaders[s].valid

\* C6 as stated: without packed depth-stencil, under every setting of the
\* other capability flags, a created framebuffer has the separate variant
\* and its destruction releases exactly its depth and its stencil
\* renderbuffer.
C6_SeparateWheneverUnpacked ==
    \A f \in FbIds :
        (~caps["OES_packed_depth_stencil"] /\ Allocated(f)) =>
            /\ Separate(fbs[f])
            /\ Destroyed(f) =>
                 ReleasedRenderbuffers = <<fbs[f].z_buffer, fbs[f].stencil_buffer>>

\* C6 amended: on a GLES context without packed depth-stencil, a created
\* framebuffer has the separate variant (two distinct renderbuffers, no
\* combined one) and its destruction releases exactly these two; on a
\* desktop context the packed flag is not consulted and the variant is the
\* combined one.
C6_SeparateOnGLES ==
    \A f \in FbIds :
        /\ (caps["IsGLES"] /\ ~caps["OES_packed_depth_stencil"] /\ Allocated(f)) =>
              /\ Separate(fbs[f])
              /\ fbs[f].z_buffer # fbs[f].stencil_buffer
              /\ fbs[f].life = "created" => {fbs[f].z_buffer, fbs[f].stencil_buffer} \subseteq gl.liveRb
              /\ Destroyed(f) =>
                   /\ ReleasedRenderbuffers = <<fbs[f].z_buffer, fbs[f].stencil_buffer>>
                   /\ {fbs[f].z_buffer, fbs[f].stencil_buffer} \cap gl.liveRb = {}
        /\ (~caps["IsGLES"] /\ Allocated(f)) => Combined(fbs[f])

C6_Witness ==
    \E f \in FbIds :
        /\ caps["IsGLES"] /\ ~caps["OES_packed_depth_stencil"]
        /\ Allocated(f) /\ Destroyed(f)
        /\ Len(ReleasedRenderbuffers) = 2

----------------------------------------------------------------------------
\* Properties of the render queue.

\* The operands of the calls of f in the log c, in order.
RECURSIVE ArgsOf(_, _)
ArgsOf(c, f) ==
    IF c = <<>> THEN <<>>
    ELSE (IF Head(c).f = f THEN <<Head(c).a>> ELSE <<>>) \o ArgsOf(Tail(c), f)

Range(q) == {q[i] : i \in 1..Len(q)}

IsCopyCall(c) ==
    c.f \in {"glCopyImageSubData", "glCopyImageSubDataNV", "glCopyImageSubDataOES"}

\* The device region-copy calls of the operation in progress.
CopyCalls == SelectSeq(calls, IsCopyCall)

\* C1: in a render pass, a bind-texture command that repeats the command
\* before it (same slot, same texture) issues no glBindTexture, so that N
\* equal commands in a row issue one bind in all.
C1_RepeatedBindElided ==
    [][(/\ ctl.pc = "pass" /\ ctl'.pc = "pass"
        /\ last.op = "BINDTEXTURE" /\ last' = last)
       => ArgsOf(calls', "glBindTexture") = <<>>]_vars

\* C3: a copy step whose aspect mask is depth issues no device region-copy
\* call, under every copy capability.
C3_DepthCopyRejected ==
    (last.op = "COPY" /\ last.c = GL_DEPTH_BUFFER_BIT) => CopyCalls = <<>>

\* C4: the device copy of a color copy step takes its source handle from the
\* color texture of the step's source framebuffer and its destination handle
\* from the color texture of the step's destination framebuffer.
C4_CopyHandles ==
    (last.op = "COPY" /\ last.c = GL_COLOR_BUFFER_BIT) =>
        \A i \in 1..Len(CopyCalls) :
            /\ CopyCalls[i].a = fbs[last.a].color_texture
            /\ CopyCalls[i].b = fbs[last.b].color_texture

\* C5: the Y a viewport or scissor command passes to the device is
\* targetHeight - y - h when the pass targets the backbuffer and y when it
\* targets a framebuffer.
C5_FlipIffBackbuffer ==
    (ctl.pc = "pass" /\ last.op \in {"VIEWPORT", "SCISSOR"}) =>
        calls[1].a = IF loc.fb = NULL
                     THEN run.targetHeight_ - last.a - last.b
                     ELSE last.a

\* C8: when PerformRenderPass has returned from a non-empty command list, no
\* vertex attribute slot is enabled on the device, the active texture unit
\* is unit 0, the array and element buffer bindings are 0 and scissor
\* testing is off.
C8_PassExitReset ==
    last.op = "RENDER_END" =>
        /\ gl.attribs = {}
        /\ gl.activeTexture = 0
        /\ gl.arrayBuffer = 0
        /\ gl.elementArrayBuffer = 0
        /\ ~gl.scissor

\* A pass has returned that had attributes enabled and a unit selected.
C8_Witness ==
    /\ last.op = "RENDER_END"
    /\ ArgsOf(calls, "glDisableVertexAttribArray") # <<>>
    /\ Len(ArgsOf(calls, "glActiveTexture")) = 1
    /\ Len(ArgsOf(calls, "glBindBuffer")) = 2

\* C9: a render step whose command list is empty issues no device call and
\* changes neither the device state nor the executor's members (the cached
\* framebuffer handles, the current framebuffer and its size).
C9_EmptyPassNoEffect ==
    [][last'.op = "RENDER_EMPTY" =>
          /\ calls' = <<>>
          /\ gl' = gl
          /\ run' = run
          /\ fbs' = fbs /\ objs' = objs /\ shaders' = shaders]_vars

\* An empty pass was given a target other than the current one.
C9_Witness ==
    /\ last.op = "RENDER_EMPTY"
    /\ ctl.pc = "steps"
    /\ last.a # run.curFB_

\* C10: a bind-input-layout command that finds the slots A enabled and binds
\* a layout of mask B issues one enable call for each slot of B \ A, one
\* disable call for each slot of A \ B and no other enable or disable call,
\* and leaves exactly B enabled.
C10_LayoutSwitch ==
    [][(ctl.pc = "pass" /\ ctl'.pc = "pass" /\ last'.op = "BIND_INPUT_LAYOUT") =>
          LET A == gl.attribs
              B == Bits(last'.a)
              en == ArgsOf(calls', "glEnableVertexAttribArray")
              dis == ArgsOf(calls', "glDisableVertexAttribArray")
          IN  /\ Range(en) = B \ A /\ Len(en) = Cardinality(B \ A)
              /\ Range(dis) = A \ B /\ Len(dis) = Cardinality(A \ B)
              /\ gl'.attribs = B
              /\ Bits(loc'.attrMask) = B]_vars

\* A layout was bound over one that shares a slot with it: some slot was
\* enabled, some disabled and some kept.
C10_Witness ==
    /\ ctl.pc = "pass" /\ last.op = "BIND_INPUT_LAYOUT"
    /\ ArgsOf(calls, "glEnableVertexAttribArray") # <<>>
    /\ ArgsOf(calls, "glDisableVertexAttribArray") # <<>>
    /\ gl.attribs \ Range(ArgsOf(calls, "glEnableVertexAttribArray")) # {}

\* The handle a BIND_BUFFER command names.
BufferName(c) == IF c.b # NULL THEN objs.buffers[c.b].buffer ELSE 0

\* The glBindBuffer calls in the log q, as <<target, name>> pairs.
BufferBinds(q) ==
    LET b == SelectSeq(q, LAMBDA x : x.f = "glBindBuffer")
    IN  [i \in 1..Len(b) |-> <<b[i].a, b[i].b>>]

\* C11: in a render pass, a bind-buffer command for the array (resp.
\* element) target issues a device bind, of its handle on its target, iff
\* the handle differs from the one last bound to that target in this pass
\* (none at the start of the pass); the other target's tracked handle and
\* device binding are left alone, and a tracked handle is the device's
\* binding.
C11_BufferBindDedup ==
    [][(/\ ctl.pc = "pass" /\ ctl'.pc = "pass" /\ last'.op = "BIND_BUFFER"
        /\ last'.a \in {GL_ARRAY_BUFFER, GL_ELEMENT_ARRAY_BUFFER}) =>
          LET array == last'.a = GL_ARRAY_BUFFER
              prev == IF array THEN loc.curArrayBuffer ELSE loc.curElemArrayBuffer
              name == BufferName(last')
          IN  /\ BufferBinds(calls') =
                   IF name # prev THEN << <<last'.a, name>> >> ELSE <<>>
              /\ IF array
                 THEN /\ loc'.curElemArrayBuffer = loc.curElemArrayBuffer
                      /\ gl'.elementArrayBuffer = gl.elementArrayBuffer
                      /\ gl'.arrayBuffer = name /\ loc'.curArrayBuffer = name
                 ELSE /\ loc'.curArrayBuffer = loc.curArrayBuffer
                      /\ gl'.arrayBuffer = gl.arrayBuffer
                      /\ gl'.elementArrayBuffer = name
                      /\ loc'.curElemArrayBuffer = name]_vars

\* A repeated array bind was elided in a pass in which the element target
\* holds a different buffer.
C11_Witness ==
    /\ ctl.pc = "pass" /\ last.op = "BIND_BUFFER" /\ last.a = GL_ARRAY_BUFFER
    /\ calls = <<>>
    /\ loc.curElemArrayBuffer \notin {NO_NAME, loc.curArrayBuffer}
    /\ loc.curArrayBuffer # 0

\* The framebuffer-bind calls in the log q, as <<target, name>> pairs.
FramebufferBinds(q) ==
    LET b == SelectSeq(q, LAMBDA x : x.f \in {"glBindFramebuffer", "glBindFramebufferEXT"})
    IN  [i \in 1..Len(b) |-> <<b[i].t, b[i].a>>]

\* The step taken starts a non-empty render pass to a framebuffer.
BeginsFramebufferPass == last'.op = "RENDER" /\ last'.a # NULL /\ ctl.pc = "steps"

\* That pass directly follows a non-empty pass to the same framebuffer.
RepeatsFramebufferPass ==
    BeginsFramebufferPass /\ last.op = "RENDER_END" /\ last.a = last'.a

\* C12 as stated: consecutive non-empty passes to one framebuffer issue
\* exactly one framebuffer bind in all, the first pass of the run of passes
\* one and each later pass none.
C12_ExactlyOneBind ==
    [][BeginsFramebufferPass =>
          Len(FramebufferBinds(calls')) = IF RepeatsFramebufferPass THEN 0 ELSE 1]_vars

\* C12 amended: binding a framebuffer as render target issues one
\* framebuffer bind, of the requested handle on the target
\* fbo_get_fb_target selects, iff the handle differs from the cached handle
\* of that target, and leaves the cache at the requested handle; so
\* consecutive non-empty passes to one framebuffer issue at most one bind
\* in all: the first pass one iff its handle is not the cached one, each
\* later pass none.
C12_BindIffCacheDiffers ==
    [][BeginsFramebufferPass =>
          LET t == fbo_get_fb_target(FALSE)
              name == fbs[last'.a].framebuf
          IN  /\ FramebufferBinds(calls') =
                   IF run[t.cached] # name THEN << <<t.target, name>> >> ELSE <<>>
              /\ run'[t.cached] = name
              /\ RepeatsFramebufferPass => FramebufferBinds(calls') = <<>>]_vars

\* A pass to a framebuffer found its handle, not the default one, cached.
C12_Witness ==
    /\ ctl.pc = "pass" /\ last.op = "RENDER" /\ last.a # NULL
    /\ FramebufferBinds(calls) = <<>>
    /\ run.currentDrawHandle_ = fbs[last.a].framebuf
    /\ fbs[last.a].framebuf # g_defaultFBO

\* The payloads the operation in progress has deleted, in order.
Released == LET d == SelectSeq(calls, LAMBDA x : x.f = "delete[]")
            IN  [i \in 1..Len(d) |-> d[i].t]

\* The position of the first call of f in the log of the operation in
\* progress, 0 when there is none.
FirstCall(f) ==
    IF \E i \in 1..Len(calls) : calls[i].f = f
    THEN CHOOSE i \in 1..Len(calls) :
             calls[i].f = f /\ \A j \in 1..(i - 1) : calls[j].f # f
    ELSE 0

\* The payload of the step is deleted once, after the call of f.
ReleasedOnceAfter(payload, f) ==
    /\ Released = <<payload>>
    /\ FirstCall(f) > 0
    /\ FirstCall(f) < FirstCall("delete[]")

\* What C13 and its amended form say of the steps other than CREATE_SHADER.
UploadPayloadsReleased ==
    /\ last.op = "TEXTURE_IMAGE" => ReleasedOnceAfter("texture_image.data", "glTexImage2D")
    /\ (last.op = "BUFFER_SUBDATA" /\ last.b = 1) =>
           ReleasedOnceAfter("buffer_subdata.data", "glBufferSubData")
    /\ (last.op = "BUFFER_SUBDATA" /\ last.b = 0) => Released = <<>>
    /\ last.op \notin {"TEXTURE_IMAGE", "BUFFER_SUBDATA", "CREATE_SHADER"} =>
           Released = <<>>

CallsAmong(fs) == SelectSeq(calls, LAMBDA x : x.f \in fs)

PostLinkCalls == {"glUseProgram", "glGetUniformLocation", "glUniform1i"}

\* C14: a CREATE_PROGRAM step with zero shaders takes the fatal path and
\* issues no attach, attribute-binding, link, uniform-query or initializer
\* call for the program.
C14_ZeroShadersFatal ==
    (last.op = "CREATE_PROGRAM" /\ last.b = 0) =>
        /\ crashed
        /\ CallsAmong({"glAttachShader", "glBindAttribLocation", "glLinkProgram",
                       "glGetUniformLocation", "glUniform1i"}) = <<>>

\* C15: a CREATE_PROGRAM step whose link fails issues no use-program call,
\* no uniform query and no initializer call and leaves the query
\* destinations alone; the executor has not crashed, is still in the loop
\* of RunInitSteps, and its next step can execute.
C15_LinkFailureIsolated ==
    (last.op = "CREATE_PROGRAM" /\ last.c = 0 /\ ctl.pc = "init") =>
        /\ last.b > 0 => ~crashed
        /\ ~crashed =>
             /\ CallsAmong(PostLinkCalls) = <<>>
             /\ objs.programs[last.a].dest = NewProgram.dest
             /\ objs.programs[last.a].linkStatus = "failed"
             /\ gl.program # objs.programs[last.a].program
             /\ ENABLED InitStep_CREATE_INPUT_LAYOUT
             /\ \A p \in ProgramIds :
                    objs.programs[p].linkStatus = "none" => ENABLED InitStep_CREATE_PROGRAM

\* The second program of a run failed to link after the first one linked
\* and was initialised.
C15_Witness ==
    /\ last.op = "CREATE_PROGRAM" /\ last.c = 0 /\ last.b > 0 /\ ctl.pc = "init"
    /\ \E p \in ProgramIds :
          /\ objs.programs[p].linkStatus = "ok"
          /\ gl.program = objs.programs[p].program
          /\ \E q \in Queries : objs.programs[p].dest[q] # -1

----------------------------------------------------------------------------
\* Properties of the queues as lists (SpecOrder).

\* The state and the calls of the items 1..k of `list`, one after the other
\* in list order, from world w; calls accumulate.
RECURSIVE CommandsInOrder(_, _, _)
CommandsInOrder(w, cmds, k) ==
    IF k = 0 THEN w
    ELSE CHOOSE v \in {IF u.crashed THEN u ELSE ExecCommand(u, cmds[k]) :
                         u \in {CommandsInOrder(w, cmds, k - 1)}} : TRUE

ItemInOrder(w, kind, c, cont) ==
    IF kind = "init" THEN ExecInitStep(w, c)
    ELSE IF c.op = "RENDER" /\ Commands(c) # <<>>
         THEN LET u == CommandsInOrder(PassEntry(w, c.a, FALSE), Commands(c),
                                       Len(Commands(c)))
              IN  IF u.crashed THEN u ELSE [PassEpilogue(u) EXCEPT !.loc = NoLoc]
         ELSE ExecStep(w, c, cont)

RECURSIVE StepsInOrder(_, _, _, _, _)
StepsInOrder(w, kind, list, k, cont) ==
    IF k = 0 THEN w
    ELSE CHOOSE v \in {IF u.crashed THEN u ELSE ItemInOrder(u, kind, list[k], cont) :
                         u \in {StepsInOrder(w, kind, list, k - 1, cont)}} : TRUE

\* What the run must have done so far.
Expected ==
    LET w == StepsInOrder(ctl.start, ctl.kind, ctl.list, ctl.n, ctl.cont)
    IN  IF ctl.pc = "pass"
        THEN LET c == ctl.list[ctl.n + 1]
             IN  CommandsInOrder(PassEntry(w, c.a, FALSE), Commands(c), ctl.j)
        ELSE IF ctl.pc = "done" THEN [w EXCEPT !.loc = NoLoc] ELSE w

\* The item is a tag outside the enumeration, or triggers the assertion of
\* the depth copy.
Fatal(c) ==
    \/ c.op = "UNKNOWN"
    \/ c.op = "COPY" /\ c.c = GL_DEPTH_BUFFER_BIT /\ ~ctl.cont
    \/ c.op = "RENDER" /\ \E k \in 1..Len(Commands(c)) : Commands(c)[k].op = "UNKNOWN"

OrderInv ==
    ctl.pc # "idle" =>
        /\ ctl.n <= Len(ctl.list)
        /\ [World EXCEPT !.calls = ctl.trace] = Expected
        /\ ctl.pc = "done" => ctl.n = Len(ctl.list)
        /\ crashed => \E k \in 1..Len(ctl.list) : Fatal(ctl.list[k])

\* C16: the steps of RunInitSteps and RunSteps and the commands of
\* PerformRenderPass execute once each in list order: at every point of the
\* run the state and the sequence of device calls are those of the items
\* before the loop index, taken one after the other in list order, and the
\* run ends at the end of the list unless an item was fatal.
C16_InListOrder ==
    /\ []OrderInv
    /\ <>(crashed \/ (ctl.pc = "done" /\ ctl.n = Len(ctl.list)))

\* A list of three different steps, one of them a pass of several commands,
\* has run to its end.
C16_Witness ==
    /\ ctl.pc = "done" /\ ~crashed
    /\ ctl.n = 3
    /\ ctl.list[1] # ctl.list[2] /\ ctl.list[2] # ctl.list[3]
    /\ (ctl.kind = "steps" =>
          \E k \in 1..3 : ctl.list[k].op = "RENDER" /\ Len(Commands(ctl.list[k])) > 1)
    /\ Len(ctl.trace) > 3

----------------------------------------------------------------------------
\* Properties of the uniform commands (SpecUniform).

IsUniformCall(c) ==
    c.f \in {"glUniformMatrix4fv", "glUniform1f", "glUniform2fv", "glUniform3fv",
             "glUniform4fv", "glUniform1iv", "glUniform2iv", "glUniform3iv",
             "glUniform4iv"}

UniformCalls == SelectSeq(calls, IsUniformCall)

NameLookups == SelectSeq(calls, LAMBDA c : c.f = "GetUniformLoc")

\* C17: a uniform command with a location pointer takes its slot from the
\* pointer and looks no name up; without a pointer the slot is looked up by
\* name in the bound program; the device call is issued exactly when the
\* slot is >= 0.
C17_PointerBeforeName ==
    (last.op \in UniformOps /\ ~crashed) =>
        LET slot == IF last.a # NULL THEN Deref(World, last.a)
                    ELSE IF last.b # NULL /\ loc.curProgram # NULL
                         THEN GetUniformLoc(World, loc.curProgram, last.b)
                         ELSE -1
        IN  /\ last.a # NULL => NameLookups = <<>>
            /\ (last.a = NULL /\ last.b # NULL) => Len(NameLookups) = 1
            /\ (last.a # NULL \/ last.b = NULL \/ loc.curProgram # NULL) =>
                 UniformCalls = IF slot >= 0
                                THEN <<UniformCall(last.op, last.c, slot)>> ELSE <<>>

\* What the code does: a name, when there is one, decides the slot, with or
\* without a pointer.
UniformNameBeforePointer ==
    (last.op \in UniformOps /\ ~crashed) =>
        LET slot == IF last.b # NULL
                    THEN IF loc.curProgram # NULL
                         THEN GetUniformLoc(World, loc.curProgram, last.b) ELSE -1
                    ELSE IF last.a # NULL THEN Deref(World, last.a) ELSE -1
        IN  /\ Len(NameLookups) = IF last.b # NULL THEN 1 ELSE 0
            /\ (last.b = NULL \/ loc.curProgram # NULL) =>
                 UniformCalls = IF slot >= 0
                                THEN <<UniformCall(last.op, last.c, slot)>> ELSE <<>>


\* C26: a uniform command addressed by name never performs its lookup on
\* an absent program: every lookup of the command goes to a program that a
\* BINDPROGRAM of the same pass has bound.
C26_LookupOnBoundProgram ==
    \A i \in 1..Len(NameLookups) : NameLookups[i].a # NULL

\* What the code does keep: a pass starts with no current program, and the
\* current program changes only at a BINDPROGRAM, to the program it names.
CurProgramPerPass ==
    /\ last.op = "RENDER" => loc.curProgram = NULL
    /\ (last.op = "BINDPROGRAM" /\ ctl.pc = "pass") => loc.curProgram = last.a
    /\ (last.op \in UniformOps /\ ctl.pc = "pass" /\ ~crashed) =>
         \A i \in 1..Len(NameLookups) : NameLookups[i].a = loc.curProgram

----------------------------------------------------------------------------
\* Properties of the order of framebuffer destruction (SpecInit).

\* The positions in the call log of the calls of function f, or of its EXT
\* form, with first argument t.
Positions(f, t) ==
    {i \in 1..Len(calls) : calls[i].f \in {f, f \o "EXT"} /\ calls[i].t = t}

Detaches(attachment) ==
    Positions("glFramebufferTexture2D", attachment)
        \cup Positions("glFramebufferRenderbuffer", attachment)

Deletes == Positions("glDeleteRenderbuffers", "") \cup Positions("glDeleteTextures", "")

\* Every position of A is before every position of B.
Before(A, B) == \A i \in A, k \in B : i < k

\* C18: destroying a framebuffer with a non-zero FBO handle detaches the
\* color, the depth and the stencil attachment, then rebinds the default
\* framebuffer, then deletes the FBO, then deletes the renderbuffers and the
\* color texture.
C18_DestructionOrder ==
    (last.op = "DestroyFramebuffer" /\ Positions("glDeleteFramebuffers", "") # {}) =>
        LET rebind == {i \in Positions("glBindFramebuffer", "GL_FRAMEBUFFER") :
                         calls[i].a = g_defaultFBO}
            deleteFbo == Positions("glDeleteFramebuffers", "")
        IN  /\ \A att \in {"GL_COLOR_ATTACHMENT0", "GL_DEPTH_ATTACHMENT",
                           "GL_STENCIL_ATTACHMENT"} :
                 Detaches(att) # {} /\ Before(Detaches(att), rebind)
            /\ rebind # {} /\ Before(rebind, deleteFbo)
            /\ Deletes # {} /\ Before(deleteFbo, Deletes)

\* What the destructor does: as above but for the stencil attachment, which
\* it leaves attached.
DestructionOrderWithoutStencil ==
    (last.op = "DestroyFramebuffer" /\ Positions("glDeleteFramebuffers", "") # {}) =>
        LET rebind == {i \in Positions("glBindFramebuffer", "GL_FRAMEBUFFER") :
                         calls[i].a = g_defaultFBO}
            deleteFbo == Positions("glDeleteFramebuffers", "")
        IN  /\ \A att \in {"GL_COLOR_ATTACHMENT0", "GL_DEPTH_ATTACHMENT"} :
                 Detaches(att) # {} /\ Before(Detaches(att), rebind)
            /\ Detaches("GL_STENCIL_ATTACHMENT") = {}
            /\ rebind # {} /\ Before(rebind, deleteFbo)
            /\ Deletes # {} /\ Before(deleteFbo, Deletes)

----------------------------------------------------------------------------
\* Properties of the dispatch points (SpecOrder, Spec).

\* C19: a step or command whose tag is outside the enumeration ends the run
\* at the crash path, in the init queue, in the render queue and in the
\* command list of a pass: it issues no device call, and no step or command
\* is executed after it.
C19_UnknownTagFatal ==
    [][/\ last.op # "UNKNOWN"
       /\ last'.op = "UNKNOWN" => (crashed' /\ calls' = <<>>)]_vars

\* An unknown command in the middle of a pass, with a command and a step
\* left after it.
C19_Witness ==
    /\ last.op = "UNKNOWN" /\ crashed
    /\ ctl.pc = "pass"
    /\ ctl.j < Len(Commands(ctl.list[ctl.n + 1]))
    /\ ctl.n + 1 < Len(ctl.list)

Transfers == {"BLIT", "READBACK", "READBACK_IMAGE"}

\* C20: a BLIT, READBACK or READBACK_IMAGE step does not reach the crash
\* path, issues no device call and changes neither the device state nor a
\* member of the executor (the framebuffer handle caches and the current
\* framebuffer size among them), and the loop of RunSteps goes on with the
\* next step.
C20_TransferAccepted ==
    /\ [][(last' # last /\ last'.op \in Transfers) =>
            /\ gl' = gl /\ run' = run /\ fbs' = fbs /\ objs' = objs
            /\ calls' = <<>>
            /\ ~crashed'
            /\ ctl' = ctl]_vars
    /\ []((last.op \in Transfers /\ ctl.pc = "steps") =>
            ENABLED (Step_RENDER_Begin \/ Step_RENDER_Empty \/ Step_Transfer))

\* A transfer step has run after a pass to framebuffer 1: the executor holds
\* that framebuffer and its size.
C20_Witness ==
    /\ last.op \in Transfers /\ ctl.pc = "steps" /\ ~crashed
    /\ run.curFB_ = 1
    /\ run.curFBWidth_ = FbWidth(1)

----------------------------------------------------------------------------
\* Properties of the texture name cache (SpecAlloc).

\* ceil(n / d)
CeilDiv(n, d) == (n + d - 1) \div d

\* C21: from an empty cache, N calls of AllocTextureName issue ceil(N / 16)
\* glGenTextures calls, each for 16 names, and return N different names,
\* each of them a name the device generated and that is still allocated.
C21_BatchAllocation ==
    /\ ctl.gens = CeilDiv(ctl.n, TEXCACHE_NAME_CACHE_SIZE)
    /\ \A i, k \in 1..Len(ctl.given) : ctl.given[i] = ctl.given[k] => i = k
    /\ \A i \in 1..Len(ctl.given) : ctl.given[i] \in gl.liveTex
    /\ Len(ctl.given) = ctl.n
    /\ last.op = "AllocTextureName" =>
         \A i \in 1..Len(calls) :
            calls[i].f = "glGenTextures" /\ calls[i].a = TEXCACHE_NAME_CACHE_SIZE

\* Two batches are used up and a third one is begun.
C21_Witness ==
    /\ last.op = "AllocTextureName"
    /\ ctl.n = 2 * TEXCACHE_NAME_CACHE_SIZE + 1
    /\ ctl.gens = 3
    /\ Len(calls) = 1

----------------------------------------------------------------------------
\* Properties of the draw commands (SpecDraw).

DrawCalls == SelectSeq(calls, LAMBDA c : c.f \in {"glDrawElements", "glDrawArrays"})

\* C22: a DRAW_INDEXED command issues one glDrawElements call when its
\* instance count is 1 and no draw call for any other instance count; in
\* both cases the pass goes on with its next command or its end.
C22_DrawIndexedInstances ==
    last.op = "DRAW_INDEXED" =>
        /\ DrawCalls = IF last.b = 1
                       THEN <<Call("glDrawElements", "", last.a, 0)>> ELSE <<>>
        /\ calls = DrawCalls
        /\ ~crashed /\ ctl.pc = "pass"
        /\ ENABLED Pass_Draws /\ ENABLED Pass_End

\* A draw-indexed command of several instances has been replayed with the
\* element buffer bound, and has drawn nothing.
C22_Witness ==
    /\ last.op = "DRAW_INDEXED" /\ last.b > 1
    /\ loc.curElemArrayBuffer # NO_NAME /\ gl.elementArrayBuffer # 0
    /\ calls = <<>>

----------------------------------------------------------------------------
\* Properties of the framebuffer handle cache and of the framebuffers'
\* native objects (SpecInit).

\* C23: whenever the executor is between operations, the cached draw handle
\* is the framebuffer bound for drawing on the device, 0 standing for the
\* default framebuffer.
C23_BindCacheCoherent ==
    run.currentDrawHandle_ = IF gl.drawFB = g_defaultFBO THEN 0 ELSE gl.drawFB

\* The native objects of framebuffers that the device holds.
LiveFramebufferObjects == gl.liveFb \cup gl.liveTex \cup gl.liveRb

\* C24: in every capability tier, once each framebuffer that was created has
\* been destroyed the device holds none of their native objects, and a
\* destruction deletes no name twice.
C24_ResourceBalance ==
    /\ (\A f \in FbIds : fbs[f].life # "created") => LiveFramebufferObjects = {}
    /\ last.op = "DestroyFramebuffer" =>
         \A i, k \in 1..Len(calls) :
            (calls[i].f = calls[k].f /\ calls[i].a = calls[k].a /\ calls[i].a # 0
             /\ calls[i].f \in {"glDeleteRenderbuffers", "glDeleteTextures",
                                "glDeleteFramebuffers", "glDeleteFramebuffersEXT"})
                => i = k

\* The balance on the tiers other than the extension-only one.
ResourceBalanceOutsideExt ==
    (caps["USING_GLES2"] \/ caps["ARB_framebuffer_object"]
        \/ ~caps["EXT_framebuffer_object"]) => C24_ResourceBalance

----------------------------------------------------------------------------
\* Properties of the bound-texture tracking of RunInitSteps (SpecTrack).

\* The texture bound on the device's active unit.
DeviceBoundTexture == gl.tex2D[gl.activeTexture]

\* C25: while the init queue runs, a tracked bound texture is the texture the
\* device has bound, and a TEXTURE_IMAGE step uploads with its own texture
\* bound, issuing glBindTexture before the upload call or not at all.
C25_UploadTargetBound ==
    ctl.pc = "init" =>
        /\ loc.boundTexture # NO_NAME => DeviceBoundTexture = loc.boundTexture
        /\ last.op = "TEXTURE_IMAGE" =>
             /\ DeviceBoundTexture = objs.textures[last.a].texture
             /\ \A i \in 1..Len(calls) :
                  calls[i].f = "glBindTexture" =>
                     /\ calls[i].a = objs.textures[last.a].texture
                     /\ i < FirstCall("glTexImage2D")

\* An upload to one texture right after the other texture was created or
\* uploaded to: the step had to bind.
C25_Witness ==
    /\ ctl.pc = "init" /\ last.op = "TEXTURE_IMAGE"
    /\ \A t \in 1..MaxTextures : objs.textures[t].texture # 0
    /\ FirstCall("glBindTexture") > 0
    /\ \E f \in FbIds : fbs[f].life = "created"

====
